---- MODULE Spec2Model ----
(***************************************************************************)
(* Model of the health-scoring and aggregation engine of                   *)
(*   basic-2/monitoring/monitor.py        (class AWSMonitor)               *)
(*   basic-2/advanced/phase7-manager.py   (class Phase7Manager)            *)
(*                                                                         *)
(* Units.  A utilization the code holds as a float rounded to two decimals *)
(* is an integer number of hundredths of a percent (80.00% is 8000).  A    *)
(* raw datapoint of the metrics API is an integer number of thousandths,   *)
(* so that round(x, 2) has something to round.  The overall score of a     *)
(* report is in hundredths of a point.                                     *)
(*                                                                         *)
(* An external API call is modelled by its response: a record with a       *)
(* raises flag (the call threw) and the payload the code reads.            *)
(***************************************************************************)
EXTENDS Integers, Sequences, FiniteSets, TLC

VARIABLES
    pc,              \* control position of the running program
    platform,        \* responses the platform gave to the calls made so far
    api_calls,       \* external API calls made by the operation, in order
    health,          \* ServiceHealth returned by AWSMonitor.get_service_health
    metrics,         \* dict returned by Phase7Manager.get_service_metrics
    cluster_info,    \* generate_report: cluster_info
    services_health, \* generate_report: services_health
    report,          \* dict returned by AWSMonitor.generate_report
    mgr_report,      \* generate_comprehensive_report: report
    user_input,      \* lines the operator typed at the prompts of the handler
    console,         \* last message the handler printed
    args,            \* monitor.py main: args.watch, args.output
    recommendations, \* print_report: recommendations
    table_data,      \* service_health_check, real_time_dashboard: table_data
    overall_health,  \* real_time_dashboard: overall_health
    end_time,        \* monitor_load_test: end_time - start_time, in units of 10 s
    clock            \* time.time() - start_time, in units of 10 seconds

\* The locals of the loops and of the printing handlers
locals == <<args, recommendations, table_data, overall_health, end_time, clock>>

vars == <<pc, platform, api_calls, health, metrics, cluster_info,
          services_health, report, mgr_report, user_input, console,
          args, recommendations, table_data, overall_health, end_time, clock>>

----------------------------------------------------------------------------
(* Bounds of the model *)

MaxTasks == 4
MaxUtil == 1000
MaxDatapoints == 2

\* Longest time one metrics fetch takes, in units of 10 seconds
MaxLatency == 2

(* Program constants *)

Scale == 100

----------------------------------------------------------------------------
(* Python builtins *)

max(a, b) == IF a >= b THEN a ELSE b

\* round(num / den) to the nearest integer, ties to the even one
round(num, den) ==
    LET q == num \div den
        r == num % den
    IN  IF 2 * r < den THEN q
        ELSE IF 2 * r > den THEN q + 1
        ELSE IF q % 2 = 0 THEN q ELSE q + 1

RECURSIVE sum(_)
sum(s) == IF s = <<>> THEN 0 ELSE Head(s) + sum(Tail(s))

RECURSIVE SeqMax(_)
SeqMax(s) == IF Len(s) = 1 THEN s[1] ELSE max(Head(s), SeqMax(Tail(s)))

Pad2(n) == IF n < 10 THEN "0" \o ToString(n) ELSE ToString(n)

\* datetime.isoformat() of <<year, month, day, hour, minute, second>>
isoformat(dt) ==
    ToString(dt[1]) \o "-" \o Pad2(dt[2]) \o "-" \o Pad2(dt[3]) \o "T"
        \o Pad2(dt[4]) \o ":" \o Pad2(dt[5]) \o ":" \o Pad2(dt[6])

----------------------------------------------------------------------------
(* monitor.py: class AWSMonitor *)

AWSMonitor_services ==
    <<"api-gateway", "user-service", "product-service", "order-service",
      "notification-service">>

Call(api, service, raised) == [api |-> api, service |-> service, raised |-> raised]

\* Mutant: no datapoints read as a saturated service
AWSMonitor_get_service_cpu_utilization_saturated(response) ==
    IF response.raises THEN 0
    ELSE IF response.Datapoints # <<>>
         THEN round(response.Datapoints[Len(response.Datapoints)].Average, 10)
         ELSE 100 * Scale

AWSMonitor_get_service_cpu_utilization(response) ==
    IF response.raises THEN 0
    ELSE IF response.Datapoints # <<>>
         THEN round(response.Datapoints[Len(response.Datapoints)].Average, 10)
         ELSE 0

AWSMonitor_get_service_memory_utilization(response) ==
    IF response.raises THEN 0
    ELSE IF response.Datapoints # <<>>
         THEN round(response.Datapoints[Len(response.Datapoints)].Average, 10)
         ELSE 0

AWSMonitor_get_service_error_count(response) ==
    IF response.raises THEN 0 ELSE Len(response.events)

\* Mutant: the final max(0, score) left out
AWSMonitor_calculate_health_score_nofloor(status, running, desired, cpu, memory, errors) ==
    LET s0 == 100
        s1 == IF status # "ACTIVE" THEN s0 - 30 ELSE s0
        s2 == IF running < desired THEN s1 - 20 * (desired - running) ELSE s1
        s3 == IF cpu > 80 * Scale THEN s2 - 15
              ELSE IF cpu > 60 * Scale THEN s2 - 5 ELSE s2
        s4 == IF memory > 80 * Scale THEN s3 - 15
              ELSE IF memory > 60 * Scale THEN s3 - 5 ELSE s3
        s5 == IF errors > 10 THEN s4 - 20
              ELSE IF errors > 5 THEN s4 - 10
              ELSE IF errors > 0 THEN s4 - 5 ELSE s4
    IN  s5

\* Mutant: the two CPU penalties exchanged
AWSMonitor_calculate_health_score_swapped(status, running, desired, cpu, memory, errors) ==
    LET s0 == 100
        s1 == IF status # "ACTIVE" THEN s0 - 30 ELSE s0
        s2 == IF running < desired THEN s1 - 20 * (desired - running) ELSE s1
        s3 == IF cpu > 80 * Scale THEN s2 - 5
              ELSE IF cpu > 60 * Scale THEN s2 - 15 ELSE s2
        s4 == IF memory > 80 * Scale THEN s3 - 15
              ELSE IF memory > 60 * Scale THEN s3 - 5 ELSE s3
        s5 == IF errors > 10 THEN s4 - 20
              ELSE IF errors > 5 THEN s4 - 10
              ELSE IF errors > 0 THEN s4 - 5 ELSE s4
    IN  max(0, s5)

\* The task deficit charged once, whatever its size
AWSMonitor_calculate_health_score_flat_deficit(status, running, desired, cpu, memory, errors) ==
    LET s0 == 100
        s1 == IF status # "ACTIVE" THEN s0 - 30 ELSE s0
        s2 == IF running < desired THEN s1 - 20 ELSE s1
        s3 == IF cpu > 80 * Scale THEN s2 - 15
              ELSE IF cpu > 60 * Scale THEN s2 - 5 ELSE s2
        s4 == IF memory > 80 * Scale THEN s3 - 15
              ELSE IF memory > 60 * Scale THEN s3 - 5 ELSE s3
        s5 == IF errors > 10 THEN s4 - 20
              ELSE IF errors > 5 THEN s4 - 10
              ELSE IF errors > 0 THEN s4 - 5 ELSE s4
    IN  max(0, s5)

AWSMonitor_calculate_health_score(status, running, desired, cpu, memory, errors) ==
    LET s0 == 100
        s1 == IF status # "ACTIVE" THEN s0 - 30 ELSE s0
        s2 == IF running < desired THEN s1 - 20 * (desired - running) ELSE s1
        s3 == IF cpu > 80 * Scale THEN s2 - 15
              ELSE IF cpu > 60 * Scale THEN s2 - 5 ELSE s2
        s4 == IF memory > 80 * Scale THEN s3 - 15
              ELSE IF memory > 60 * Scale THEN s3 - 5 ELSE s3
        s5 == IF errors > 10 THEN s4 - 20
              ELSE IF errors > 5 THEN s4 - 10
              ELSE IF errors > 0 THEN s4 - 5 ELSE s4
    IN  max(0, s5)

ServiceHealth(service_name, status, running_tasks, desired_tasks, cpu_utilization, memory_utilization, health_score, last_deployment, errors_count) ==
    [service_name |-> service_name, status |-> status,
     running_tasks |-> running_tasks, desired_tasks |-> desired_tasks,
     cpu_utilization |-> cpu_utilization,
     memory_utilization |-> memory_utilization,
     health_score |-> health_score, last_deployment |-> last_deployment,
     errors_count |-> errors_count]

NoHealth == ServiceHealth("", "", 0, 0, 0, 0, 0, "", 0)

\* get_service_health, lines 126-153: the service was found.  env holds
\* the platform's responses for this service: describe, cpu, memory, logs.
AWSMonitor_get_service_health_found(service_name, env) ==
    LET service == env.describe.services[1]
        cpu_util == AWSMonitor_get_service_cpu_utilization(env.cpu)
        memory_util == AWSMonitor_get_service_memory_utilization(env.memory)
        error_count == AWSMonitor_get_service_error_count(env.logs)
        health_score == AWSMonitor_calculate_health_score(
                            service.status, service.runningCount,
                            service.desiredCount, cpu_util, memory_util,
                            error_count)
    IN  [raised |-> FALSE,
         value |-> ServiceHealth(
             service_name, service.status, service.runningCount,
             service.desiredCount, cpu_util, memory_util, health_score,
             IF service.deployments # <<>>
             THEN isoformat(service.deployments[1].createdAt) ELSE "Never",
             error_count),
         calls |->
             <<Call("describe_services", service_name, FALSE),
               Call("get_metric_statistics:CPUUtilization", service_name,
                    env.cpu.raises),
               Call("get_metric_statistics:MemoryUtilization", service_name,
                    env.memory.raises),
               Call("filter_log_events", service_name, env.logs.raises)>>]

\* Mutant: the test for an empty describe-services result left out, so
\* that services[0] raises
AWSMonitor_get_service_health_try_noguard(service_name, env) ==
    LET c1 == <<Call("describe_services", service_name, env.describe.raises)>>
    IN  IF env.describe.raises \/ env.describe.services = <<>>
        THEN [raised |-> TRUE, value |-> NoHealth, calls |-> c1]
        ELSE AWSMonitor_get_service_health_found(service_name, env)

\* The try block of get_service_health: what it returns or that it raised,
\* and the API calls it made
AWSMonitor_get_service_health_try(service_name, env) ==
    LET c1 == <<Call("describe_services", service_name, env.describe.raises)>>
    IN  IF env.describe.raises
        THEN [raised |-> TRUE, value |-> NoHealth, calls |-> c1]
        ELSE IF env.describe.services = <<>>
        THEN [raised |-> FALSE,
              value |-> ServiceHealth(service_name, "NOT_FOUND", 0, 0, 0, 0, 0,
                                      "Never", 0),
              calls |-> c1]
        ELSE AWSMonitor_get_service_health_found(service_name, env)

\* Mutant: no except clause around the body
AWSMonitor_get_service_health_noexcept(service_name, env) ==
    AWSMonitor_get_service_health_try(service_name, env)

AWSMonitor_get_service_health(service_name, env) ==
    LET t == AWSMonitor_get_service_health_try(service_name, env)
    IN  IF t.raised
        THEN [raised |-> FALSE,
              value |-> ServiceHealth(service_name, "ERROR", 0, 0, 0, 0, 0,
                                      "Error", 999),
              calls |-> t.calls]
        ELSE t

----------------------------------------------------------------------------
(* phase7-manager.py: class Phase7Manager *)

Phase7Manager_services ==
    <<"api-gateway", "user-service", "product-service", "order-service",
      "notification-service">>

performance_thresholds ==
    [cpu_warning |-> 70, cpu_critical |-> 85,
     memory_warning |-> 70, memory_critical |-> 85]

\* The task deficit charged per missing task
Phase7Manager_calculate_health_score_scaled_deficit(m) ==
    LET s0 == 100
        s1 == IF m.cpu_avg > performance_thresholds.cpu_critical * Scale
              THEN s0 - 30
              ELSE IF m.cpu_avg > performance_thresholds.cpu_warning * Scale
              THEN s0 - 15 ELSE s0
        s2 == IF m.memory_avg > performance_thresholds.memory_critical * Scale
              THEN s1 - 30
              ELSE IF m.memory_avg > performance_thresholds.memory_warning * Scale
              THEN s1 - 15 ELSE s1
        s3 == IF m.running_tasks < m.desired_tasks
              THEN s2 - 20 * (m.desired_tasks - m.running_tasks) ELSE s2
        s4 == IF m.status # "ACTIVE" THEN s3 - 40 ELSE s3
    IN  max(0, s4)

Phase7Manager_calculate_health_score(m) ==
    LET s0 == 100
        s1 == IF m.cpu_avg > performance_thresholds.cpu_critical * Scale
              THEN s0 - 30
              ELSE IF m.cpu_avg > performance_thresholds.cpu_warning * Scale
              THEN s0 - 15 ELSE s0
        s2 == IF m.memory_avg > performance_thresholds.memory_critical * Scale
              THEN s1 - 30
              ELSE IF m.memory_avg > performance_thresholds.memory_warning * Scale
              THEN s1 - 15 ELSE s1
        s3 == IF m.running_tasks < m.desired_tasks THEN s2 - 20 ELSE s2
        s4 == IF m.status # "ACTIVE" THEN s3 - 40 ELSE s3
    IN  max(0, s4)

\* The metrics dict as get_service_metrics initialises it
DefaultMetrics(service_name) ==
    [service |-> service_name, status |-> "Unknown",
     cpu_avg |-> 0, cpu_max |-> 0, memory_avg |-> 0, memory_max |-> 0,
     task_count |-> 0, running_tasks |-> 0, desired_tasks |-> 0,
     response_time |-> 0, error_rate |-> 0, health_score |-> 0]

Averages(datapoints) == [i \in 1..Len(datapoints) |-> datapoints[i].Average]
Maximums(datapoints) == [i \in 1..Len(datapoints) |-> datapoints[i].Maximum]

\* Returns the metrics dict and the API calls made.  An exception anywhere
\* in the try block leaves the dict as it was at that point.
Phase7Manager_get_service_metrics(service_name, env) ==
    LET m0 == DefaultMetrics(service_name)
        c1 == <<Call("describe_services", service_name, env.describe.raises)>>
        m1 == IF env.describe.services # <<>>
              THEN LET service_info == env.describe.services[1]
                   IN  [m0 EXCEPT !.status = service_info.status,
                                  !.running_tasks = service_info.runningCount,
                                  !.desired_tasks = service_info.desiredCount,
                                  !.task_count = service_info.runningCount]
              ELSE m0
        c2 == c1 \o <<Call("get_metric_statistics:CPUUtilization", service_name,
                           env.cpu.raises)>>
        m2 == IF env.cpu.Datapoints # <<>>
              THEN [m1 EXCEPT
                      !.cpu_avg = round(sum(Averages(env.cpu.Datapoints)),
                                        10 * Len(env.cpu.Datapoints)),
                      !.cpu_max = round(SeqMax(Maximums(env.cpu.Datapoints)), 10)]
              ELSE m1
        c3 == c2 \o <<Call("get_metric_statistics:MemoryUtilization", service_name,
                           env.memory.raises)>>
        m3 == IF env.memory.Datapoints # <<>>
              THEN [m2 EXCEPT
                      !.memory_avg = round(sum(Averages(env.memory.Datapoints)),
                                           10 * Len(env.memory.Datapoints)),
                      !.memory_max = round(SeqMax(Maximums(env.memory.Datapoints)),
                                           10)]
              ELSE m2
        m4 == [m3 EXCEPT !.health_score = Phase7Manager_calculate_health_score(m3)]
    IN  IF env.describe.raises THEN [value |-> m0, calls |-> c1]
        ELSE IF env.cpu.raises THEN [value |-> m1, calls |-> c2]
        ELSE IF env.memory.raises THEN [value |-> m2, calls |-> c3]
        ELSE [value |-> m4, calls |-> c3]

----------------------------------------------------------------------------
(* Responses of the external APIs, as the code reads them *)

Statuses == {"ACTIVE", "DRAINING"}

Deployment == [createdAt |-> <<2024, 1, 15, 10, 30, 0>>]

ServiceInfo(status, running, desired, deployments) ==
    [status |-> status, runningCount |-> running, desiredCount |-> desired,
     deployments |-> deployments]

DescribeFound(service) == [raises |-> FALSE, services |-> <<service>>]
DescribeEmpty == [raises |-> FALSE, services |-> <<>>]
DescribeRaises == [raises |-> TRUE, services |-> <<>>]

Stats(datapoints) == [raises |-> FALSE, Datapoints |-> datapoints]
StatsRaises == [raises |-> TRUE, Datapoints |-> <<>>]

Logs(n) == [raises |-> FALSE, events |-> [i \in 1..n |-> "ERROR"]]
LogsRaises == [raises |-> TRUE, events |-> <<>>]

Env(describe, cpu, memory, logs) ==
    [describe |-> describe, cpu |-> cpu, memory |-> memory, logs |-> logs]

SeqsUpTo(S, n) == UNION {[1..k -> S] : k \in 0..n}

\* Utilizations (hundredths of a percent) on both sides of every threshold
\* of the two scoring variants, and the out-of-range MaxUtil percent
UtilValues ==
    {0, MaxUtil * Scale}
        \cup {t * Scale + k : t \in {60, 70, 80, 85}, k \in {0, 1}}

\* Error counts on both sides of every tier of the error penalty
ErrorValues == {0, 1, 5, 6, 10, 11}

\* One datapoint per metric, every combination of the raw signals
SignalEnvs ==
    {Env(DescribeFound(ServiceInfo(st, r, d, <<Deployment>>)),
         Stats(<<[Average |-> 10 * c, Maximum |-> 10 * c]>>),
         Stats(<<[Average |-> 10 * m, Maximum |-> 10 * m]>>),
         Logs(e)) :
        st \in Statuses, r \in 0..MaxTasks, d \in 0..MaxTasks,
        c \in UtilValues, m \in UtilValues, e \in ErrorValues}

\* Raw datapoints, in thousandths of a percent
DpSamples ==
    {[Average |-> 45004, Maximum |-> 61235],
     [Average |-> 90005, Maximum |-> 99999]}

StatsShapes == {StatsRaises} \cup {Stats(s) : s \in SeqsUpTo(DpSamples, MaxDatapoints)}

DescribeShapes ==
    {DescribeRaises, DescribeEmpty,
     DescribeFound(ServiceInfo("ACTIVE", 2, 2, <<Deployment>>)),
     DescribeFound(ServiceInfo("ACTIVE", 2, 2, <<>>)),
     DescribeFound(ServiceInfo("DRAINING", 1, 2, <<Deployment>>))}

\* Every shape of response: a call that raises, no datapoints, several
ShapeEnvs ==
    {Env(ds, c, m, l) :
        ds \in DescribeShapes, c \in StatsShapes, m \in StatsShapes,
        l \in {LogsRaises, Logs(0), Logs(3)}}

\* One service with the given signals, CPU and memory in whole percent
Scenario(st, r, d, c, m, e) ==
    Env(DescribeFound(ServiceInfo(st, r, d, <<Deployment>>)),
        Stats(<<[Average |-> 1000 * c, Maximum |-> 1000 * c]>>),
        Stats(<<[Average |-> 1000 * m, Maximum |-> 1000 * m]>>),
        Logs(e))

\* A quiet service, a service one task short, a draining overloaded service
ScenarioEnvs ==
    {Scenario("ACTIVE", 2, 2, 10, 10, 0),
     Scenario("ACTIVE", 1, 2, 50, 50, 0),
     Scenario("DRAINING", 0, 3, 95, 95, 15)}

ServiceEnvs == SignalEnvs \cup ShapeEnvs \cup ScenarioEnvs

----------------------------------------------------------------------------
(* State after construction *)

NoReport ==
    [cluster_info |-> [error |-> ""], services_health |-> <<>>,
     overall_health_score |-> 0,
     summary |-> [total_services |-> 0, healthy_services |-> 0,
                  warning_services |-> 0, critical_services |-> 0]]

Fresh ==
    /\ platform = <<>>
    /\ api_calls = <<>>
    /\ health = NoHealth
    /\ metrics = DefaultMetrics("")
    /\ cluster_info = [error |-> ""]
    /\ services_health = <<>>
    /\ report = NoReport
    /\ mgr_report = [services |-> <<>>,
                     performance |-> [avg_cpu |-> 0, avg_memory |-> 0,
                                      overall_health |-> 0],
                     recommendations |-> <<>>]
    /\ user_input = <<>>
    /\ console = ""
    /\ recommendations = <<>>
    /\ table_data = <<>>
    /\ overall_health = 0
    /\ end_time = 0
    /\ clock = 0

----------------------------------------------------------------------------
(* SpecService: one service polled once, by each of the two programs *)

\* argparse defaults of main, lines 528-531
DefaultArgs == [watch |-> FALSE, output |-> "console"]

InitService == pc = "service" /\ args = DefaultArgs /\ Fresh

\* AWSMonitor.get_service_health(service_name)
GetServiceHealth ==
    /\ pc = "service"
    /\ \E env \in ServiceEnvs :
         LET res == AWSMonitor_get_service_health(AWSMonitor_services[1], env)
         IN  /\ platform' = <<env>>
             /\ api_calls' = res.calls
             /\ health' = res.value
             /\ pc' = IF res.raised THEN "service_raised" ELSE "service_health"
    /\ UNCHANGED <<metrics, cluster_info, services_health, report, mgr_report,
                   user_input, console>>
    /\ UNCHANGED locals

\* Phase7Manager.get_service_metrics(service_name)
GetServiceMetrics ==
    /\ pc = "service"
    /\ \E env \in ServiceEnvs :
         LET res == Phase7Manager_get_service_metrics(Phase7Manager_services[1], env)
         IN  /\ platform' = <<env>>
             /\ api_calls' = res.calls
             /\ metrics' = res.value
             /\ pc' = "service_metrics"
    /\ UNCHANGED <<health, cluster_info, services_health, report, mgr_report,
                   user_input, console>>
    /\ UNCHANGED locals

\* service_health_check, lines 644-675: the row of one service, from the
\* metrics fetched for it; the joined lists are kept as lists
\* The issues list left empty when nothing is wrong
Phase7Manager_service_health_check_row_empty_issues(m) ==
    LET cpu == m.cpu_avg > 80 * Scale
        mem == m.memory_avg > 80 * Scale
        deficit == m.running_tasks < m.desired_tasks
        inactive == m.status # "ACTIVE"
        issues ==
            (IF cpu THEN <<"High CPU">> ELSE <<>>)
            \o (IF mem THEN <<"High Memory">> ELSE <<>>)
            \o (IF deficit THEN <<"Task deficit">> ELSE <<>>)
            \o (IF inactive THEN <<"Service inactive">> ELSE <<>>)
        recs ==
            (IF cpu THEN <<"Scale up">> ELSE <<>>)
            \o (IF mem THEN <<"Optimize memory">> ELSE <<>>)
            \o (IF deficit THEN <<"Check logs">> ELSE <<>>)
            \o (IF inactive THEN <<"Restart service">> ELSE <<>>)
    IN  [service |-> m.service, status |-> m.status,
         health_score |-> m.health_score,
         issues |-> issues,
         recommendations |-> recs]

Phase7Manager_service_health_check_row(m) ==
    LET cpu == m.cpu_avg > 80 * Scale
        mem == m.memory_avg > 80 * Scale
        deficit == m.running_tasks < m.desired_tasks
        inactive == m.status # "ACTIVE"
        issues ==
            (IF cpu THEN <<"High CPU">> ELSE <<>>)
            \o (IF mem THEN <<"High Memory">> ELSE <<>>)
            \o (IF deficit THEN <<"Task deficit">> ELSE <<>>)
            \o (IF inactive THEN <<"Service inactive">> ELSE <<>>)
        recs ==
            (IF cpu THEN <<"Scale up">> ELSE <<>>)
            \o (IF mem THEN <<"Optimize memory">> ELSE <<>>)
            \o (IF deficit THEN <<"Check logs">> ELSE <<>>)
            \o (IF inactive THEN <<"Restart service">> ELSE <<>>)
    IN  [service |-> m.service, status |-> m.status,
         health_score |-> m.health_score,
         issues |-> IF issues = <<>> THEN <<"None">> ELSE issues,
         recommendations |-> IF issues = <<>> THEN <<"None">> ELSE recs]

\* service_health_check, lines 643-675: one iteration of the loop over the
\* services
ServiceHealthCheck_Service ==
    /\ pc = "service"
    /\ \E env \in ServiceEnvs :
         LET res == Phase7Manager_get_service_metrics(Phase7Manager_services[1], env)
         IN  /\ platform' = <<env>>
             /\ api_calls' = res.calls
             /\ metrics' = res.value
             /\ table_data' = <<Phase7Manager_service_health_check_row(res.value)>>
    /\ pc' = "service_checked"
    /\ UNCHANGED <<health, cluster_info, services_health, report, mgr_report,
                   user_input, console, args, recommendations, overall_health,
                   end_time, clock>>

NextService == GetServiceHealth \/ GetServiceMetrics \/ ServiceHealthCheck_Service

SpecService == InitService /\ [][NextService]_vars

----------------------------------------------------------------------------
(* monitor.py: cluster, infrastructure and the report *)

project_name == "django-microservices"
environment == "dev"
region == "us-east-1"
cluster_name == project_name \o "-cluster"

\* datetime.now() of the run
Now == <<2024, 1, 15, 12, 0, 0>>

AWSMonitor_get_ecs_cluster_info(response) ==
    LET calls == <<Call("describe_clusters", cluster_name, response.raises)>>
    IN  IF response.raises
        THEN [value |-> [error |-> "describe_clusters failed"], calls |-> calls]
        ELSE IF response.clusters = <<>>
        THEN [value |-> [error |-> "Cluster not found"], calls |-> calls]
        ELSE LET cluster == response.clusters[1]
             IN  [value |-> [name |-> cluster.clusterName,
                             status |-> cluster.status,
                             running_tasks |-> cluster.runningTasksCount,
                             pending_tasks |-> cluster.pendingTasksCount,
                             services |-> cluster.activeServicesCount,
                             capacity_providers |-> <<>>],
                  calls |-> calls]

\* Seconds, in thousandths; a raw datapoint is in ten-thousandths
AWSMonitor_get_alb_response_time(response) ==
    IF response.raises THEN 0
    ELSE IF response.Datapoints # <<>>
         THEN round(response.Datapoints[Len(response.Datapoints)].Average, 10)
         ELSE 0

RECURSIVE CountTargets(_, _)
\* Over the target groups in order: <<healthy, unhealthy, raised, calls>>
CountTargets(groups, acc) ==
    IF groups = <<>> \/ acc.raised THEN acc
    ELSE LET h == Head(groups).health
             n == Len(h.TargetHealthDescriptions)
             healthy == Cardinality({i \in 1..n :
                            h.TargetHealthDescriptions[i] = "healthy"})
             calls == acc.calls \o <<Call("describe_target_health", "alb", h.raises)>>
         IN  IF h.raises
             THEN [acc EXCEPT !.raised = TRUE, !.calls = calls]
             ELSE CountTargets(Tail(groups),
                      [acc EXCEPT !.healthy = @ + healthy,
                                  !.unhealthy = @ + (n - healthy),
                                  !.calls = calls])

AWSMonitor_get_alb_target_health(response) ==
    LET c1 == <<Call("describe_target_groups", "alb", response.raises)>>
        acc == CountTargets(response.TargetGroups,
                   [healthy |-> 0, unhealthy |-> 0, raised |-> FALSE, calls |-> c1])
    IN  IF response.raises \/ acc.raised
        THEN [healthy |-> 0, unhealthy |-> 0,
              calls |-> IF response.raises THEN c1 ELSE acc.calls]
        ELSE [healthy |-> acc.healthy, unhealthy |-> acc.unhealthy,
              calls |-> acc.calls]

InfrastructureHealth(rds_status, redis_status, alb_status, alb_response_time, alb_healthy_targets, alb_unhealthy_targets) ==
    [rds_status |-> rds_status, redis_status |-> redis_status,
     alb_status |-> alb_status, alb_response_time |-> alb_response_time,
     alb_healthy_targets |-> alb_healthy_targets,
     alb_unhealthy_targets |-> alb_unhealthy_targets]

\* Load balancer names that contain the project name
InProjectName(name) == name \in {"django-microservices-alb"}

\* Positions of the load balancers of the project, in the order listed
ProjectLoadBalancers(lbs) ==
    {i \in 1..Len(lbs) : InProjectName(lbs[i].LoadBalancerName)}

Least(S) == CHOOSE i \in S : \A j \in S : i <= j

AWSMonitor_get_infrastructure_health(ienv) ==
    LET c1 == <<Call("describe_db_instances", "rds", ienv.rds.raises)>>
        c2 == c1 \o <<Call("describe_cache_clusters", "redis", ienv.redis.raises)>>
        c3 == c2 \o <<Call("describe_load_balancers", "alb", ienv.alb.raises)>>
        failed(calls) == [value |-> InfrastructureHealth("error", "error", "error",
                                                         0, 0, 0),
                          calls |-> calls]
        mine == ProjectLoadBalancers(ienv.alb.LoadBalancers)
    IN  IF ienv.rds.raises \/ ienv.rds.DBInstances = <<>> THEN failed(c1)
        ELSE IF ienv.redis.raises \/ ienv.redis.CacheClusters = <<>> THEN failed(c2)
        ELSE IF ienv.alb.raises THEN failed(c3)
        ELSE IF mine = {}
        THEN [value |-> InfrastructureHealth(
                            ienv.rds.DBInstances[1].DBInstanceStatus,
                            ienv.redis.CacheClusters[1].CacheClusterStatus,
                            "unknown", 0, 0, 0),
              calls |-> c3]
        ELSE LET lb == ienv.alb.LoadBalancers[Least(mine)]
                 rt == AWSMonitor_get_alb_response_time(ienv.response_time)
                 th == AWSMonitor_get_alb_target_health(ienv.target_groups)
             IN  [value |-> InfrastructureHealth(
                                ienv.rds.DBInstances[1].DBInstanceStatus,
                                ienv.redis.CacheClusters[1].CacheClusterStatus,
                                lb.State.Code, rt, th.healthy, th.unhealthy),
                  calls |-> c3 \o
                      <<Call("get_metric_statistics:TargetResponseTime", "alb",
                             ienv.response_time.raises)>> \o th.calls]

Scores(sh) == [i \in 1..Len(sh) |-> sh[i].health_score]

\* Mutant: the warning band opened at its lower end (60 < score < 80)
AWSMonitor_generate_report_return_open_warning(ci, sh, infra_health) ==
    [timestamp |-> isoformat(Now),
     project_name |-> project_name,
     environment |-> environment,
     region |-> region,
     cluster_info |-> ci,
     services_health |-> sh,
     infrastructure_health |-> infra_health,
     overall_health_score |-> round(100 * sum(Scores(sh)), Len(sh)),
     summary |->
        [total_services |-> Len(AWSMonitor_services),
         healthy_services |->
            Cardinality({i \in 1..Len(sh) : sh[i].health_score >= 80}),
         warning_services |->
            Cardinality({i \in 1..Len(sh) :
                            60 < sh[i].health_score /\ sh[i].health_score < 80}),
         critical_services |->
            Cardinality({i \in 1..Len(sh) : sh[i].health_score < 60})]]

\* Mutant: the healthy band opened at its lower end (score > 80), the
\* warning band taking the score of 80
AWSMonitor_generate_report_return_open_healthy(ci, sh, infra_health) ==
    [timestamp |-> isoformat(Now),
     project_name |-> project_name,
     environment |-> environment,
     region |-> region,
     cluster_info |-> ci,
     services_health |-> sh,
     infrastructure_health |-> infra_health,
     overall_health_score |-> round(100 * sum(Scores(sh)), Len(sh)),
     summary |->
        [total_services |-> Len(AWSMonitor_services),
         healthy_services |->
            Cardinality({i \in 1..Len(sh) : sh[i].health_score > 80}),
         warning_services |->
            Cardinality({i \in 1..Len(sh) :
                            60 <= sh[i].health_score /\ sh[i].health_score <= 80}),
         critical_services |->
            Cardinality({i \in 1..Len(sh) : sh[i].health_score < 60})]]

\* The dict generate_report returns, from its three locals
AWSMonitor_generate_report_return(ci, sh, infra_health) ==
    [timestamp |-> isoformat(Now),
     project_name |-> project_name,
     environment |-> environment,
     region |-> region,
     cluster_info |-> ci,
     services_health |-> sh,
     infrastructure_health |-> infra_health,
     overall_health_score |-> round(100 * sum(Scores(sh)), Len(sh)),
     summary |->
        [total_services |-> Len(AWSMonitor_services),
         healthy_services |->
            Cardinality({i \in 1..Len(sh) : sh[i].health_score >= 80}),
         warning_services |->
            Cardinality({i \in 1..Len(sh) :
                            60 <= sh[i].health_score /\ sh[i].health_score < 80}),
         critical_services |->
            Cardinality({i \in 1..Len(sh) : sh[i].health_score < 60})]]

----------------------------------------------------------------------------
(* Responses of the platform during a report *)

ClusterResponses ==
    {[raises |-> TRUE, clusters |-> <<>>],
     [raises |-> FALSE, clusters |-> <<>>],
     [raises |-> FALSE,
      clusters |-> <<[clusterName |-> cluster_name, status |-> "ACTIVE",
                      runningTasksCount |-> 10, pendingTasksCount |-> 0,
                      activeServicesCount |-> 5]>>]}

ProjectLb ==
    [LoadBalancerName |-> "django-microservices-alb", State |-> [Code |-> "active"],
     LoadBalancerArn |-> "arn:loadbalancer/app/django-microservices-alb/1"]

OtherLb ==
    [LoadBalancerName |-> "other-alb", State |-> [Code |-> "provisioning"],
     LoadBalancerArn |-> "arn:loadbalancer/app/other-alb/2"]

InfraOk ==
    [rds |-> [raises |-> FALSE, DBInstances |-> <<[DBInstanceStatus |-> "available"]>>],
     redis |-> [raises |-> FALSE,
                CacheClusters |-> <<[CacheClusterStatus |-> "available"]>>],
     alb |-> [raises |-> FALSE, LoadBalancers |-> <<ProjectLb>>],
     response_time |-> Stats(<<[Average |-> 2504, Maximum |-> 2504]>>),
     target_groups |->
        [raises |-> FALSE,
         TargetGroups |-> <<[health |-> [raises |-> FALSE,
                             TargetHealthDescriptions |-> <<"healthy", "healthy">>]]>>]]

InfraEnvs ==
    {InfraOk,
     [InfraOk EXCEPT !.rds = [raises |-> TRUE, DBInstances |-> <<>>]],
     [InfraOk EXCEPT
        !.alb.LoadBalancers = <<OtherLb, ProjectLb>>,
        !.response_time = Stats(<<[Average |-> 2504, Maximum |-> 2504],
                                  [Average |-> 15005, Maximum |-> 15005]>>),
        !.target_groups.TargetGroups =
            <<[health |-> [raises |-> FALSE,
                           TargetHealthDescriptions |-> <<"healthy", "unhealthy">>]],
              [health |-> [raises |-> FALSE,
                           TargetHealthDescriptions |-> <<"draining">>]]>>]}

\* What one service answers during a report: the call raises, the service
\* is unknown, it runs 0..MaxTasks of MaxTasks tasks, or it is found and
\* its metrics and log calls raise.
ReportEnvs ==
    {Env(DescribeRaises, Stats(<<>>), Stats(<<>>), Logs(0)),
     Env(DescribeEmpty, Stats(<<>>), Stats(<<>>), Logs(0)),
     Env(DescribeFound(ServiceInfo("ACTIVE", MaxTasks, MaxTasks, <<Deployment>>)),
         StatsRaises, StatsRaises, LogsRaises)}
    \cup {Env(DescribeFound(ServiceInfo("ACTIVE", r, MaxTasks, <<Deployment>>)),
              Stats(<<>>), Stats(<<>>), Logs(0)) : r \in 0..MaxTasks}

----------------------------------------------------------------------------
(* monitor.py: main, single run *)

\* generate_report, lines 385-386
GenerateReport_ClusterInfo ==
    /\ pc = "mon_start"
    /\ \E response \in ClusterResponses :
         LET res == AWSMonitor_get_ecs_cluster_info(response)
         IN  /\ cluster_info' = res.value
             /\ api_calls' = res.calls
    /\ services_health' = <<>>
    /\ pc' = "gr_services"
    /\ UNCHANGED <<platform, health, metrics, report, mgr_report, user_input,
                   console>>
    /\ UNCHANGED locals

\* generate_report, lines 389-392: one iteration of the loop over the services
GenerateReport_ServiceHealth ==
    /\ pc = "gr_services"
    /\ Len(services_health) < Len(AWSMonitor_services)
    /\ \E env \in ReportEnvs :
         LET service == AWSMonitor_services[Len(services_health) + 1]
             res == AWSMonitor_get_service_health(service, env)
         IN  /\ platform' = Append(platform, env)
             /\ api_calls' = api_calls \o res.calls
             /\ IF res.raised
                THEN pc' = "mon_crashed" /\ UNCHANGED <<health, services_health>>
                ELSE /\ health' = res.value
                     /\ services_health' = Append(services_health, res.value)
                     /\ pc' = pc
    /\ UNCHANGED <<metrics, cluster_info, report, mgr_report, user_input, console>>
    /\ UNCHANGED locals

\* generate_report, lines 394-415: infrastructure, the aggregates, the return
GenerateReport_Return ==
    /\ pc = "gr_services"
    /\ Len(services_health) = Len(AWSMonitor_services)
    /\ \E ienv \in InfraEnvs :
         LET res == AWSMonitor_get_infrastructure_health(ienv)
         IN  /\ api_calls' = api_calls \o res.calls
             /\ report' = AWSMonitor_generate_report_return(
                              cluster_info, services_health, res.value)
    /\ pc' = "gr_done"
    /\ UNCHANGED <<platform, health, metrics, cluster_info, services_health,
                   mgr_report, user_input, console>>
    /\ UNCHANGED locals

----------------------------------------------------------------------------
(* phase7-manager.py: the handlers of the menu *)

\* int(s) on the lines the operator may type: surrounding blanks and a sign
\* are accepted, anything else is a ValueError
IntLiterals ==
    ("0" :> 0) @@ ("1" :> 1) @@ ("2" :> 2) @@ ("3" :> 3) @@ (" 2 " :> 2)
        @@ ("-1" :> -1) @@ ("+3" :> 3) @@ ("5" :> 5) @@ ("10" :> 10)
        @@ ("100" :> 100) @@ ("1001" :> 1001)

int(s) ==
    IF s \in DOMAIN IntLiterals
    THEN [ok |-> TRUE, value |-> IntLiterals[s]]
    ELSE [ok |-> FALSE, value |-> 0]

InSeq(x, seq) == \E i \in 1..Len(seq) : seq[i] = x

\* Mutant: the capacities compared with > in place of >=
Phase7Manager_update_scaling_targets_gt(service, min_line, max_line, response) ==
    LET min_capacity == int(min_line)
        max_capacity == int(max_line)
        call == [api |-> "register_scalable_target",
                 service |-> service,
                 raised |-> response.raises,
                 ResourceId |-> "service/" \o cluster_name \o "/" \o project_name
                                    \o "-" \o service,
                 MinCapacity |-> min_capacity.value,
                 MaxCapacity |-> max_capacity.value]
    IN  IF ~InSeq(service, Phase7Manager_services)
        THEN [raised |-> FALSE, read |-> <<service>>, calls |-> <<>>,
              console |-> "Invalid service name"]
        ELSE IF ~min_capacity.ok
        THEN [raised |-> FALSE, read |-> <<service, min_line>>, calls |-> <<>>,
              console |-> "Please enter valid numbers"]
        ELSE IF ~max_capacity.ok
        THEN [raised |-> FALSE, read |-> <<service, min_line, max_line>>, calls |-> <<>>,
              console |-> "Please enter valid numbers"]
        ELSE IF min_capacity.value > max_capacity.value
        THEN [raised |-> FALSE, read |-> <<service, min_line, max_line>>, calls |-> <<>>,
              console |-> "Minimum capacity must be less than maximum capacity"]
        ELSE IF response.raises
        THEN [raised |-> FALSE, read |-> <<service, min_line, max_line>>, calls |-> <<call>>,
              console |-> "Error updating scaling targets"]
        ELSE [raised |-> FALSE, read |-> <<service, min_line, max_line>>, calls |-> <<call>>,
              console |-> "Updated scaling targets"]

\* What update_scaling_targets does with the lines typed at its prompts and
\* the response of register_scalable_target: the lines it read, the calls
\* it made, the message it printed and whether an exception left it (both
\* except clauses end the handler normally)
Phase7Manager_update_scaling_targets(service, min_line, max_line, response) ==
    LET min_capacity == int(min_line)
        max_capacity == int(max_line)
        call == [api |-> "register_scalable_target",
                 service |-> service,
                 raised |-> response.raises,
                 ResourceId |-> "service/" \o cluster_name \o "/" \o project_name
                                    \o "-" \o service,
                 MinCapacity |-> min_capacity.value,
                 MaxCapacity |-> max_capacity.value]
    IN  IF ~InSeq(service, Phase7Manager_services)
        THEN [raised |-> FALSE, read |-> <<service>>, calls |-> <<>>,
              console |-> "Invalid service name"]
        ELSE IF ~min_capacity.ok
        THEN [raised |-> FALSE, read |-> <<service, min_line>>, calls |-> <<>>,
              console |-> "Please enter valid numbers"]
        ELSE IF ~max_capacity.ok
        THEN [raised |-> FALSE, read |-> <<service, min_line, max_line>>, calls |-> <<>>,
              console |-> "Please enter valid numbers"]
        ELSE IF min_capacity.value >= max_capacity.value
        THEN [raised |-> FALSE, read |-> <<service, min_line, max_line>>, calls |-> <<>>,
              console |-> "Minimum capacity must be less than maximum capacity"]
        ELSE IF response.raises
        THEN [raised |-> FALSE, read |-> <<service, min_line, max_line>>, calls |-> <<call>>,
              console |-> "Error updating scaling targets"]
        ELSE [raised |-> FALSE, read |-> <<service, min_line, max_line>>, calls |-> <<call>>,
              console |-> "Updated scaling targets"]

NoMgrReport ==
    [services |-> <<>>,
     performance |-> [avg_cpu |-> 0, avg_memory |-> 0, overall_health |-> 0],
     recommendations |-> <<>>]

Field(seq, f) == [i \in 1..Len(seq) |-> seq[i][f]]

\* generate_comprehensive_report, lines 564-583, from report['services']
Phase7Manager_generate_comprehensive_report_finish(svcs) ==
    LET n == Len(Phase7Manager_services)
        cpu == sum(Field(svcs, "cpu_avg"))
        mem == sum(Field(svcs, "memory_avg"))
        hs == sum(Field(svcs, "health_score"))
    IN  [services |-> svcs,
         performance |->
            [avg_cpu |-> round(cpu, n),
             avg_memory |-> round(mem, n),
             overall_health |-> round(100 * hs, n)],
         recommendations |->
            (IF hs < 70 * n
             THEN <<"System health is below optimal. Consider scaling up resources.">>
             ELSE <<>>)
            \o (IF cpu > 80 * Scale * n
                THEN <<"High CPU utilization detected. Consider horizontal scaling.">>
                ELSE <<>>)
            \o (IF mem > 80 * Scale * n
                THEN <<"High memory utilization detected. Consider memory optimization.">>
                ELSE <<>>)]

\* Lines the operator may type at the prompts of update_scaling_targets
ServiceLines == {"api-gateway", "order-service", "payment-service", ""}
CapacityLines == {"0", "1", "2", "3", " 2 ", "-1", "+3", "abc", "", "2.5"}
RegisterResponses == {[raises |-> FALSE], [raises |-> TRUE]}

\* What one service answers during the manager's report
MgrReportEnvs ==
    {Env(DescribeRaises, Stats(<<>>), Stats(<<>>), Logs(0)),
     Env(DescribeEmpty, Stats(<<>>), Stats(<<>>), Logs(0)),
     Env(DescribeFound(ServiceInfo("ACTIVE", MaxTasks, MaxTasks, <<Deployment>>)),
         Stats(<<>>), Stats(<<>>), Logs(0)),
     Env(DescribeFound(ServiceInfo("ACTIVE", 0, MaxTasks, <<Deployment>>)),
         Stats(<<>>), Stats(<<>>), Logs(0)),
     Env(DescribeFound(ServiceInfo("ACTIVE", MaxTasks, MaxTasks, <<Deployment>>)),
         StatsRaises, Stats(<<>>), Logs(0)),
     Env(DescribeFound(ServiceInfo("ACTIVE", MaxTasks, MaxTasks, <<Deployment>>)),
         Stats(<<[Average |-> 90005, Maximum |-> 99999]>>),
         Stats(<<[Average |-> 45004, Maximum |-> 61235]>>), Logs(0))}

----------------------------------------------------------------------------
(* phase7-manager.py: run, the menu loop *)

\* run: choice '1', autoscaling_management: choice '2', update_scaling_targets;
\* an exception that leaves the handler ends the loop of run (line 633)
UpdateScalingTargets ==
    /\ pc = "menu"
    /\ \E service \in ServiceLines, min_line \in CapacityLines,
          max_line \in CapacityLines, response \in RegisterResponses :
         LET res == Phase7Manager_update_scaling_targets(
                        service, min_line, max_line, response)
         IN  /\ user_input' = <<"1", "2">> \o res.read
             /\ api_calls' = res.calls
             /\ console' = IF res.raised THEN "An error occurred" ELSE res.console
             /\ pc' = IF res.raised THEN "mgr_exit" ELSE "press_enter"
    /\ UNCHANGED <<platform, health, metrics, cluster_info, services_health,
                   report, mgr_report>>
    /\ UNCHANGED locals

\* run: choice '8', generate_comprehensive_report, lines 546-557
GenerateComprehensiveReport_Begin ==
    /\ pc = "menu"
    /\ user_input' = <<"8">>
    /\ mgr_report' = NoMgrReport
    /\ pc' = "gcr_services"
    /\ UNCHANGED <<platform, api_calls, health, metrics, cluster_info,
                   services_health, report, console>>
    /\ UNCHANGED locals

\* generate_comprehensive_report, lines 560-562: one iteration of the loop
GenerateComprehensiveReport_Service ==
    /\ pc = "gcr_services"
    /\ Len(mgr_report.services) < Len(Phase7Manager_services)
    /\ \E env \in MgrReportEnvs :
         LET service == Phase7Manager_services[Len(mgr_report.services) + 1]
             res == Phase7Manager_get_service_metrics(service, env)
         IN  /\ platform' = Append(platform, env)
             /\ api_calls' = api_calls \o res.calls
             /\ metrics' = res.value
             /\ mgr_report' = [mgr_report EXCEPT !.services = Append(@, res.value)]
    /\ UNCHANGED <<pc, health, cluster_info, services_health, report, user_input,
                   console>>
    /\ UNCHANGED locals

\* generate_comprehensive_report, lines 564-598
GenerateComprehensiveReport_Finish ==
    /\ pc = "gcr_services"
    /\ Len(mgr_report.services) = Len(Phase7Manager_services)
    /\ mgr_report' =
         Phase7Manager_generate_comprehensive_report_finish(mgr_report.services)
    /\ console' = "Report generated"
    /\ pc' = "press_enter"
    /\ UNCHANGED <<platform, api_calls, health, metrics, cluster_info,
                   services_health, report, user_input>>
    /\ UNCHANGED locals

\* run, line 629: Press Enter to continue, and the loop shows the menu
\* again; the locals of the handler are gone
Run_Continue ==
    /\ pc = "press_enter"
    /\ pc' = "menu"
    /\ platform' = <<>>
    /\ api_calls' = <<>>
    /\ metrics' = DefaultMetrics("")
    /\ mgr_report' = NoMgrReport
    /\ user_input' = <<>>
    /\ console' = ""
    /\ recommendations' = <<>>
    /\ table_data' = <<>>
    /\ overall_health' = 0
    /\ end_time' = 0
    /\ clock' = 0
    /\ UNCHANGED <<health, cluster_info, services_health, report, args>>

----------------------------------------------------------------------------
(* The two programs, each started once *)

Init == pc \in {"mon_start", "menu"} /\ args = DefaultArgs /\ Fresh

Next ==
    \/ GenerateReport_ClusterInfo
    \/ GenerateReport_ServiceHealth
    \/ GenerateReport_Return
    \/ UpdateScalingTargets
    \/ GenerateComprehensiveReport_Begin
    \/ GenerateComprehensiveReport_Service
    \/ GenerateComprehensiveReport_Finish
    \/ Run_Continue

Spec == Init /\ [][Next]_vars

----------------------------------------------------------------------------
(* monitor.py: print_report and main *)

RECURSIVE CallsInOrder(_)
\* The calls of consecutive operations, in the order made
CallsInOrder(seqs) ==
    IF seqs = <<>> THEN <<>> ELSE Head(seqs) \o CallsInOrder(Tail(seqs))

\* generate_report, lines 381-415, as one call: the report it returns and
\* the API calls made, from the platform's responses
AWSMonitor_generate_report(cluster_response, envs, ienv) ==
    LET ci == AWSMonitor_get_ecs_cluster_info(cluster_response)
        hs == [i \in 1..Len(AWSMonitor_services) |->
                  AWSMonitor_get_service_health(AWSMonitor_services[i], envs[i])]
        infra == AWSMonitor_get_infrastructure_health(ienv)
    IN  [value |-> AWSMonitor_generate_report_return(
                       ci.value, [i \in 1..Len(hs) |-> hs[i].value], infra.value),
         calls |-> ci.calls \o CallsInOrder([i \in 1..Len(hs) |-> hs[i].calls])
                      \o infra.calls]

\* One recommendation line: the rule that wrote it and the service named
Recommendation(rule, service_name) == [rule |-> rule, service |-> service_name]

\* print_report, lines 502-508: the lines one service adds
AWSMonitor_print_report_service(service) ==
    (IF service.cpu_utilization > 80 * Scale
     THEN <<Recommendation("Scale up - High CPU usage", service.service_name)>>
     ELSE <<>>)
    \o (IF service.memory_utilization > 80 * Scale
        THEN <<Recommendation("Scale up - High memory usage", service.service_name)>>
        ELSE <<>>)
    \o (IF service.errors_count > 10
        THEN <<Recommendation("Check logs - High error rate", service.service_name)>>
        ELSE <<>>)

\* Mutant: the per-service lines written before the system-wide ones
AWSMonitor_print_report_services_first(rep) ==
    LET summary == rep.summary
        infra == rep.infrastructure_health
        sh == rep.services_health
        system ==
            (IF summary.critical_services > 0
             THEN <<Recommendation("CRITICAL: Immediate attention needed", "")>>
             ELSE <<>>)
            \o (IF summary.warning_services > 0
                THEN <<Recommendation("WARNING: Monitor services", "")>>
                ELSE <<>>)
            \o (IF infra.alb_unhealthy_targets > 0
                THEN <<Recommendation("Check load balancer target health", "")>>
                ELSE <<>>)
            \o (IF infra.alb_response_time > 1000
                THEN <<Recommendation("Optimize application response time", "")>>
                ELSE <<>>)
        services == CallsInOrder(
            [i \in 1..Len(sh) |-> AWSMonitor_print_report_service(sh[i])])
        recs == services \o system
    IN  IF recs = <<>>
        THEN <<Recommendation("All systems operating normally", "")>>
        ELSE recs

\* print_report, lines 488-514: the recommendations printed, in order;
\* alb_response_time is in thousandths of a second
AWSMonitor_print_report(rep) ==
    LET summary == rep.summary
        infra == rep.infrastructure_health
        sh == rep.services_health
        system ==
            (IF summary.critical_services > 0
             THEN <<Recommendation("CRITICAL: Immediate attention needed", "")>>
             ELSE <<>>)
            \o (IF summary.warning_services > 0
                THEN <<Recommendation("WARNING: Monitor services", "")>>
                ELSE <<>>)
            \o (IF infra.alb_unhealthy_targets > 0
                THEN <<Recommendation("Check load balancer target health", "")>>
                ELSE <<>>)
            \o (IF infra.alb_response_time > 1000
                THEN <<Recommendation("Optimize application response time", "")>>
                ELSE <<>>)
        services == CallsInOrder(
            [i \in 1..Len(sh) |-> AWSMonitor_print_report_service(sh[i])])
        recs == system \o services
    IN  IF recs = <<>>
        THEN <<Recommendation("All systems operating normally", "")>>
        ELSE recs

\* main, lines 528-531: --output and --watch
ArgSets == [watch : BOOLEAN, output : {"console", "json"}]

\* What one service answers to a poll of a loop: it runs and its metrics
\* are read (the log call raises), or describe_services raises
LoopServiceUp ==
    Env(DescribeFound(ServiceInfo("ACTIVE", 2, 2, <<Deployment>>)),
        Stats(<<[Average |-> 45004, Maximum |-> 61235]>>),
        Stats(<<[Average |-> 45004, Maximum |-> 61235]>>), LogsRaises)

LoopServiceDown == Env(DescribeRaises, Stats(<<>>), Stats(<<>>), Logs(0))

\* What the platform answers during one poll of a loop: everything
\* answers, the first service fails, every call raises, or the cluster is
\* unknown and the load balancer has unhealthy targets
LoopPlatforms ==
    {[cluster |-> c, envs |-> e, infra |-> i] :
        c \in {r \in ClusterResponses : r.clusters # <<>>},
        e \in {[k \in 1..Len(AWSMonitor_services) |-> LoopServiceUp]},
        i \in {InfraOk}}
    \cup
    {[cluster |-> c, envs |-> e, infra |-> i] :
        c \in {r \in ClusterResponses : r.clusters # <<>>},
        e \in {[k \in 1..Len(AWSMonitor_services) |->
                   IF k = 1 THEN LoopServiceDown ELSE LoopServiceUp]},
        i \in {InfraOk}}
    \cup
    {[cluster |-> c, envs |-> e, infra |-> i] :
        c \in {r \in ClusterResponses : r.raises},
        e \in {[k \in 1..Len(AWSMonitor_services) |-> LoopServiceDown]},
        i \in {x \in InfraEnvs : x.rds.raises}}
    \cup
    {[cluster |-> c, envs |-> e, infra |-> i] :
        c \in {r \in ClusterResponses : ~r.raises /\ r.clusters = <<>>},
        e \in {[k \in 1..Len(AWSMonitor_services) |-> LoopServiceUp]},
        i \in {x \in InfraEnvs : Len(x.alb.LoadBalancers) > 1}}

\* generate_report on each of these answers
LoopReports ==
    [p \in LoopPlatforms |->
        AWSMonitor_generate_report(p.cluster, p.envs, p.infra)]

\* get_service_metrics of every service, in the order of self.services, on
\* each of these answers
LoopMetrics ==
    [p \in LoopPlatforms |->
        [i \in 1..Len(Phase7Manager_services) |->
            Phase7Manager_get_service_metrics(Phase7Manager_services[i],
                                              p.envs[i])]]

\* main, lines 544-549: the try block is entered and generate_report called
Main_Start ==
    /\ pc = "main"
    /\ console' = IF args.watch THEN "Starting continuous monitoring" ELSE console
    /\ pc' = "main_polling"
    /\ UNCHANGED <<platform, api_calls, health, metrics, cluster_info,
                   services_health, report, mgr_report, user_input, locals>>

\* main, lines 550 and 560: generate_report polls the platform
Main_GenerateReport ==
    /\ pc = "main_polling"
    /\ \E p \in LoopPlatforms :
         LET res == LoopReports[p]
         IN  /\ platform' = <<p>>
             /\ report' = res.value
             /\ api_calls' = res.calls
    /\ pc' = "main_rendering"
    /\ UNCHANGED <<health, metrics, cluster_info, services_health,
                   mgr_report, user_input, console, locals>>

\* main, lines 552-557 and 562-565: where main goes once the report is out
Main_Output_next(watch) == IF watch THEN "main_sleeping" ELSE "main_done"

\* main, lines 552-555 and 562-565: the report is written to stdout; a
\* write that raises reaches line 569, is logged and raised again (571)
Main_Output ==
    /\ pc = "main_rendering"
    /\ \E stdout_raises \in BOOLEAN :
         IF stdout_raises
         THEN /\ console' = "Error in monitoring"
              /\ pc' = "main_raised"
              /\ UNCHANGED recommendations
         ELSE /\ console' = args.output
              /\ recommendations' =
                    IF args.output = "json" THEN <<>>
                    ELSE AWSMonitor_print_report(report)
              /\ pc' = Main_Output_next(args.watch)
    /\ UNCHANGED <<platform, api_calls, health, metrics, cluster_info,
                   services_health, report, mgr_report, user_input, args,
                   table_data, overall_health, end_time, clock>>

\* Mutant: the loop ends after its first sleep
Main_Sleep_once ==
    /\ pc = "main_sleeping"
    /\ pc' = "main_done"
    /\ UNCHANGED <<platform, api_calls, health, metrics, cluster_info,
                   services_health, report, mgr_report, user_input, console,
                   locals>>

\* main, line 557: time.sleep(args.interval) returns
Main_Sleep ==
    /\ pc = "main_sleeping"
    /\ pc' = "main_polling"
    /\ UNCHANGED <<platform, api_calls, health, metrics, cluster_info,
                   services_health, report, mgr_report, user_input, console,
                   locals>>

\* Mutant: a sleep that Ctrl+C does not end
Main_KeyboardInterrupt_not_in_sleep ==
    /\ pc \in {"main_polling", "main_rendering"}
    /\ console' = "Monitoring stopped by user"
    /\ pc' = "main_stopped"
    /\ UNCHANGED <<platform, api_calls, health, metrics, cluster_info,
                   services_health, report, mgr_report, user_input, locals>>

\* main, lines 567-568: Ctrl+C during generate_report, the output or the
\* sleep
Main_KeyboardInterrupt ==
    /\ pc \in {"main_polling", "main_rendering", "main_sleeping"}
    /\ console' = "Monitoring stopped by user"
    /\ pc' = "main_stopped"
    /\ UNCHANGED <<platform, api_calls, health, metrics, cluster_info,
                   services_health, report, mgr_report, user_input, locals>>

----------------------------------------------------------------------------
(* phase7-manager.py: real_time_dashboard *)

\* real_time_dashboard, lines 333-351: the row of one service; .1f keeps
\* tenths of a percent
Phase7Manager_real_time_dashboard_row(m) ==
    [service |-> m.service, status |-> m.status,
     tasks |-> <<m.running_tasks, m.desired_tasks>>,
     cpu |-> round(m.cpu_avg, 10), memory |-> round(m.memory_avg, 10),
     health |-> m.health_score]

\* run: choice '5', real_time_dashboard, lines 320-324
RealTimeDashboard_Begin ==
    /\ pc = "menu"
    /\ user_input' = <<"5">>
    /\ console' = "Press Ctrl+C to stop monitoring"
    /\ pc' = "dash_polling"
    /\ UNCHANGED <<platform, api_calls, health, metrics, cluster_info,
                   services_health, report, mgr_report, locals>>

\* real_time_dashboard, lines 325-351: the header, then get_service_metrics
\* for every service
Dashboard_Poll ==
    /\ pc = "dash_polling"
    /\ \E p \in LoopPlatforms :
         LET ms == LoopMetrics[p]
         IN  /\ table_data' = [i \in 1..Len(ms) |->
                                  Phase7Manager_real_time_dashboard_row(ms[i].value)]
             /\ api_calls' = CallsInOrder([i \in 1..Len(ms) |-> ms[i].calls])
             /\ metrics' = ms[Len(ms)].value
    /\ console' = "LIVE DASHBOARD"
    /\ pc' = "dash_rendering"
    /\ UNCHANGED <<platform, health, cluster_info, services_health, report,
                   mgr_report, user_input, args, recommendations,
                   overall_health, end_time, clock>>

\* real_time_dashboard, line 353: the table is written to stdout; a write
\* that raises leaves the handler and ends run (lines 633-634)
Dashboard_Table ==
    /\ pc = "dash_rendering"
    /\ \E stdout_raises \in BOOLEAN :
         IF stdout_raises
         THEN console' = "An error occurred" /\ pc' = "run_done"
         ELSE console' = "table" /\ pc' = "dash_polling_overall"
    /\ UNCHANGED <<platform, api_calls, health, metrics, cluster_info,
                   services_health, report, mgr_report, user_input, locals>>

\* real_time_dashboard, line 356: get_service_metrics for every service
\* once more; the mean of the scores is kept in tenths
Dashboard_OverallPoll ==
    /\ pc = "dash_polling_overall"
    /\ \E p \in LoopPlatforms :
         LET ms == LoopMetrics[p]
         IN  /\ overall_health' =
                    round(10 * sum([i \in 1..Len(ms) |-> ms[i].value.health_score]),
                          Len(Phase7Manager_services))
             /\ api_calls' = CallsInOrder([i \in 1..Len(ms) |-> ms[i].calls])
             /\ metrics' = ms[Len(ms)].value
    /\ pc' = "dash_rendering_overall"
    /\ UNCHANGED <<platform, health, cluster_info, services_health, report,
                   mgr_report, user_input, console, args, recommendations,
                   table_data, end_time, clock>>

\* real_time_dashboard, lines 358-365
Dashboard_Overall ==
    /\ pc = "dash_rendering_overall"
    /\ console' = IF overall_health >= 800 THEN "EXCELLENT"
                  ELSE IF overall_health >= 600 THEN "GOOD"
                  ELSE "NEEDS ATTENTION"
    /\ pc' = "dash_sleeping"
    /\ UNCHANGED <<platform, api_calls, health, metrics, cluster_info,
                   services_health, report, mgr_report, user_input, locals>>

\* real_time_dashboard, line 367: time.sleep(10) returns
Dashboard_Sleep ==
    /\ pc = "dash_sleeping"
    /\ pc' = "dash_polling"
    /\ UNCHANGED <<platform, api_calls, health, metrics, cluster_info,
                   services_health, report, mgr_report, user_input, console,
                   locals>>

\* real_time_dashboard, lines 369-370: Ctrl+C anywhere in the loop
Dashboard_KeyboardInterrupt ==
    /\ pc \in {"dash_polling", "dash_rendering", "dash_polling_overall",
               "dash_rendering_overall", "dash_sleeping"}
    /\ console' = "Dashboard monitoring stopped"
    /\ pc' = "press_enter"
    /\ UNCHANGED <<platform, api_calls, health, metrics, cluster_info,
                   services_health, report, mgr_report, user_input, locals>>

----------------------------------------------------------------------------
(* phase7-manager.py: load testing *)

\* x or default, on the line input() returned
or(x, default) == IF x = "" THEN default ELSE x

\* start_load_test, lines 399-434, up to the call of monitor_load_test:
\* the lines read, the calls made, the message printed, and whether
\* monitor_load_test(duration) follows
Phase7Manager_start_load_test(rps_line, duration_line, response) ==
    LET target_rps == int(or(rps_line, "100"))
        duration == int(or(duration_line, "10"))
        call == [api |-> "invoke", service |-> "load-test-orchestrator",
                 raised |-> response.raises]
    IN  IF ~target_rps.ok
        THEN [read |-> <<rps_line>>, calls |-> <<>>, started |-> FALSE,
              duration |-> 0, console |-> "Please enter valid numbers"]
        ELSE IF ~duration.ok
        THEN [read |-> <<rps_line, duration_line>>, calls |-> <<>>,
              started |-> FALSE, duration |-> 0,
              console |-> "Please enter valid numbers"]
        ELSE IF response.raises
        THEN [read |-> <<rps_line, duration_line>>, calls |-> <<call>>,
              started |-> FALSE, duration |-> duration.value,
              console |-> "Error starting load test"]
        ELSE IF response.statusCode = 200
        THEN [read |-> <<rps_line, duration_line>>, calls |-> <<call>>,
              started |-> TRUE, duration |-> duration.value,
              console |-> "Load test started successfully"]
        ELSE [read |-> <<rps_line, duration_line>>, calls |-> <<call>>,
              started |-> FALSE, duration |-> duration.value,
              console |-> "Failed to start load test"]

\* Lines the operator may type at the prompts of start_load_test
RpsLines == {"", "abc", "5", "10", "100", "1001"}
DurationLines == {"", "abc", "-1", "0", "1", "2"}

\* What the load-test orchestrator answers to invoke
InvokeResponses ==
    {[raises |-> TRUE, statusCode |-> 0],
     [raises |-> FALSE, statusCode |-> 200],
     [raises |-> FALSE, statusCode |-> 500]}

\* What get_metric_statistics(RequestCount) answers during a load test
RequestCountResponses ==
    {StatsRaises, Stats(<<>>), Stats(<<[Sum |-> 1500], [Sum |-> 30000]>>)}

\* monitor_load_test, lines 460-472: the rows of the progress table, in
\* tenths (the format is .1f)
Phase7Manager_monitor_load_test_rows(alb_response, elapsed, end) ==
    LET dps == alb_response.Datapoints
        current_rps == IF Len(dps) > 0 THEN round(10 * dps[Len(dps)].Sum, 300)
                       ELSE 0
    IN  <<[metric |-> "Current RPS", value |-> current_rps],
          [metric |-> "Progress", value |-> round(1000 * elapsed, end)],
          [metric |-> "Remaining Time", value |-> round(5 * (end - elapsed), 3)]>>

\* run: choice '3', load_testing: choice '1', start_load_test; time.time()
\* is counted from start_time, in units of 10 seconds
StartLoadTest ==
    /\ pc = "menu"
    /\ \E rps_line \in RpsLines, duration_line \in DurationLines,
          response \in InvokeResponses :
         LET res == Phase7Manager_start_load_test(rps_line, duration_line, response)
         IN  /\ user_input' = <<"3", "1">> \o res.read
             /\ api_calls' = res.calls
             /\ console' = res.console
             /\ end_time' = IF res.started THEN 6 * res.duration ELSE 0
             /\ pc' = IF res.started THEN "lt_loop" ELSE "press_enter"
    /\ clock' = 0
    /\ UNCHANGED <<platform, health, metrics, cluster_info, services_health,
                   report, mgr_report, args, recommendations, table_data,
                   overall_health>>

\* monitor_load_test, line 441: the declared duration is over
MonitorLoadTest_End ==
    /\ pc = "lt_loop"
    /\ ~(clock < end_time)
    /\ pc' = "press_enter"
    /\ UNCHANGED <<platform, api_calls, health, metrics, cluster_info,
                   services_health, report, mgr_report, user_input, console,
                   locals>>

\* monitor_load_test, lines 441-475 and 482-484: one fetch and its table;
\* a fetch that raises prints the error and leaves the loop (break). The
\* fetch of lines 448-458 takes time: elapsed (line 465) is read after it
MonitorLoadTest_Poll ==
    /\ pc = "lt_loop"
    /\ clock < end_time
    /\ \E alb_response \in RequestCountResponses, latency \in 0..MaxLatency :
         /\ platform' = <<alb_response>>
         /\ api_calls' = Append(api_calls,
                [api |-> "get_metric_statistics", service |-> "alb",
                 raised |-> alb_response.raises])
         /\ clock' = clock + latency
         /\ IF alb_response.raises
            THEN /\ console' = "Error monitoring load test"
                 /\ pc' = "press_enter"
                 /\ UNCHANGED table_data
            ELSE /\ table_data' = Phase7Manager_monitor_load_test_rows(
                                      alb_response, clock + latency, end_time)
                 /\ console' = "Load Test Progress"
                 /\ pc' = "lt_sleeping"
    /\ UNCHANGED <<health, metrics, cluster_info, services_health, report,
                   mgr_report, user_input, args, recommendations,
                   overall_health, end_time>>

\* A sleep that returns without the clock having moved
MonitorLoadTest_Sleep_frozen_clock ==
    /\ pc = "lt_sleeping"
    /\ clock' = clock
    /\ pc' = "lt_loop"
    /\ UNCHANGED <<platform, api_calls, health, metrics, cluster_info,
                   services_health, report, mgr_report, user_input, console,
                   args, recommendations, table_data, overall_health, end_time>>

\* monitor_load_test, line 477: time.sleep(30) returns
MonitorLoadTest_Sleep ==
    /\ pc = "lt_sleeping"
    /\ clock' = clock + 3
    /\ pc' = "lt_loop"
    /\ UNCHANGED <<platform, api_calls, health, metrics, cluster_info,
                   services_health, report, mgr_report, user_input, console,
                   args, recommendations, table_data, overall_health, end_time>>

\* monitor_load_test, lines 479-481: Ctrl+C during the fetch or the sleep
MonitorLoadTest_KeyboardInterrupt ==
    /\ \/ pc = "lt_loop" /\ clock < end_time
       \/ pc = "lt_sleeping"
    /\ console' = "Load test monitoring stopped"
    /\ pc' = "press_enter"
    /\ UNCHANGED <<platform, api_calls, health, metrics, cluster_info,
                   services_health, report, mgr_report, user_input, locals>>

----------------------------------------------------------------------------
(* The loops of the two programs *)

\* Methods the class Phase7Manager defines (lines 32-677)
Phase7Manager_methods ==
    {"__init__", "display_menu", "get_service_metrics", "calculate_health_score",
     "autoscaling_management", "view_scaling_policies", "update_scaling_targets",
     "performance_monitoring", "real_time_dashboard", "load_testing",
     "start_load_test", "monitor_load_test", "cost_optimization",
     "display_resource_utilization", "generate_comprehensive_report", "run",
     "service_health_check"}

\* autoscaling_management, lines 198-211: what the choice leads to
Phase7Manager_autoscaling_management(choice) ==
    CASE choice = "1" -> "view_scaling_policies"
      [] choice = "2" -> "update_scaling_targets"
      [] choice = "3" -> "test_scaling_policies"
      [] choice = "4" -> "manage_predictive_scaling"
      [] choice = "5" -> "manage_scheduled_scaling"
      [] choice = "6" -> "return"
      [] OTHER -> "Invalid choice"

\* performance_monitoring, lines 303-316
Phase7Manager_performance_monitoring(choice) ==
    CASE choice = "1" -> "real_time_dashboard"
      [] choice = "2" -> "performance_analysis"
      [] choice = "3" -> "service_health_check"
      [] choice = "4" -> "performance_trends"
      [] choice = "5" -> "resource_utilization"
      [] choice = "6" -> "return"
      [] OTHER -> "Invalid choice"

\* load_testing, lines 384-397
Phase7Manager_load_testing(choice) ==
    CASE choice = "1" -> "start_load_test"
      [] choice = "2" -> "check_test_status"
      [] choice = "3" -> "stop_load_test"
      [] choice = "4" -> "view_test_results"
      [] choice = "5" -> "configure_test_parameters"
      [] choice = "6" -> "return"
      [] OTHER -> "Invalid choice"

\* run, lines 607-612, then the sub-menu: the method a pair of choices calls
SubMenuCall(choice, sub_choice) ==
    CASE choice = "1" -> Phase7Manager_autoscaling_management(sub_choice)
      [] choice = "2" -> Phase7Manager_performance_monitoring(sub_choice)
      [] choice = "3" -> Phase7Manager_load_testing(sub_choice)

\* Lines typed at the prompt of a sub-menu: its six options and another
SubChoices == {"1", "2", "3", "4", "5", "6", "7"}

\* What describe_scalable_targets answers
ScalableTargetsResponses ==
    {[raises |-> TRUE, ScalableTargets |-> <<>>],
     [raises |-> FALSE, ScalableTargets |-> <<>>],
     [raises |-> FALSE,
      ScalableTargets |-> <<[MinCapacity |-> 1, MaxCapacity |-> MaxTasks]>>]}

\* view_scaling_policies, lines 220-251: the row, as tabulate prints its
\* cells, and the calls of one service
Phase7Manager_view_scaling_policies_service(service, targets, describe) ==
    LET c1 == <<Call("describe_scalable_targets", service, targets.raises)>>
        c2 == c1 \o <<Call("describe_services", service, describe.raises)>>
        error == [service |-> service, min_capacity |-> "Error",
                  max_capacity |-> "Error", current_tasks |-> "Error",
                  cpu_target |-> "Error", memory_target |-> "Error"]
    IN  IF targets.raises THEN [rows |-> <<error>>, calls |-> c1]
        ELSE IF targets.ScalableTargets = <<>> THEN [rows |-> <<>>, calls |-> c1]
        ELSE IF describe.raises THEN [rows |-> <<error>>, calls |-> c2]
        ELSE [rows |->
                <<[service |-> service,
                   min_capacity |->
                      ToString(targets.ScalableTargets[1].MinCapacity),
                   max_capacity |->
                      ToString(targets.ScalableTargets[1].MaxCapacity),
                   current_tasks |->
                      ToString(IF describe.services # <<>>
                               THEN describe.services[1].runningCount ELSE 0),
                   cpu_target |-> "70%", memory_target |-> "70%"]>>,
              calls |-> c2]

\* run: choice '1', autoscaling_management: choice '1',
\* view_scaling_policies, lines 213-253
Run_ViewScalingPolicies ==
    /\ pc = "menu"
    /\ \E targets \in ScalableTargetsResponses,
          describe \in {DescribeRaises, DescribeEmpty,
                        DescribeFound(ServiceInfo("ACTIVE", 2, 2, <<Deployment>>))} :
         LET per == [i \in 1..Len(Phase7Manager_services) |->
                        Phase7Manager_view_scaling_policies_service(
                            Phase7Manager_services[i], targets, describe)]
         IN  /\ table_data' = CallsInOrder([i \in 1..Len(per) |-> per[i].rows])
             /\ api_calls' = CallsInOrder([i \in 1..Len(per) |-> per[i].calls])
    /\ user_input' = <<"1", "1">>
    /\ console' = "Current Auto-scaling Policies"
    /\ pc' = "press_enter"
    /\ UNCHANGED <<platform, health, metrics, cluster_info, services_health,
                   report, mgr_report, args, recommendations, overall_health,
                   end_time, clock>>

\* run: choice '7', or choice '2' and performance_monitoring: choice '3':
\* service_health_check, lines 636-677
Run_ServiceHealthCheck ==
    /\ pc = "menu"
    /\ user_input' \in {<<"7">>, <<"2", "3">>}
    /\ \E p \in LoopPlatforms :
         LET ms == LoopMetrics[p]
         IN  /\ table_data' = [i \in 1..Len(ms) |->
                                  Phase7Manager_service_health_check_row(ms[i].value)]
             /\ api_calls' = CallsInOrder([i \in 1..Len(ms) |-> ms[i].calls])
             /\ metrics' = ms[Len(ms)].value
    /\ console' = "Service Health Check"
    /\ pc' = "press_enter"
    /\ UNCHANGED <<platform, health, cluster_info, services_health, report,
                   mgr_report, args, recommendations, overall_health, end_time,
                   clock>>

\* run: choice '1', '2' or '3' and the choice typed in the sub-menu, for
\* the options that are no handler modelled above: the dashboard entered
\* from performance_monitoring, 'Back to Main Menu', an unrecognised
\* choice, and a call of a method the class does not define, whose
\* AttributeError leaves the loop of run (lines 633-634)
Run_SubMenu ==
    /\ pc = "menu"
    /\ \E choice \in {"1", "2", "3"}, sub_choice \in SubChoices :
         LET called == SubMenuCall(choice, sub_choice)
         IN  /\ called \notin {"view_scaling_policies", "update_scaling_targets",
                                "service_health_check", "start_load_test"}
             /\ user_input' = <<choice, sub_choice>>
             /\ IF called = "return"
                THEN console' = console /\ pc' = "press_enter"
                ELSE IF called = "Invalid choice"
                THEN console' = "Invalid choice" /\ pc' = "press_enter"
                ELSE IF called = "real_time_dashboard"
                THEN /\ console' = "Press Ctrl+C to stop monitoring"
                     /\ pc' = "dash_polling"
                ELSE IF called \notin Phase7Manager_methods
                THEN console' = "An error occurred" /\ pc' = "run_done"
                ELSE console' = console /\ pc' = "press_enter"
    /\ UNCHANGED <<platform, api_calls, health, metrics, cluster_info,
                   services_health, report, mgr_report, locals>>

\* run, lines 617-618 and 626-627: choice '6' and an unrecognised choice
Run_Other ==
    /\ pc = "menu"
    /\ \E choice \in {"6", "0", ""} :
         /\ user_input' = <<choice>>
         /\ console' = IF choice = "6"
                       THEN "Advanced Alerting - Feature in development"
                       ELSE "Invalid choice. Please try again."
    /\ pc' = "press_enter"
    /\ UNCHANGED <<platform, api_calls, health, metrics, cluster_info,
                   services_health, report, mgr_report, locals>>

\* run, lines 623-625: choice '9'
Run_Exit ==
    /\ pc = "menu"
    /\ user_input' = <<"9">>
    /\ console' = "Goodbye!"
    /\ pc' = "run_done"
    /\ UNCHANGED <<platform, api_calls, health, metrics, cluster_info,
                   services_health, report, mgr_report, locals>>

\* run, lines 605 and 631-634: input() raises at the prompt of the menu,
\* KeyboardInterrupt on Ctrl+C and EOFError on a closed stdin
Run_InputRaises ==
    /\ pc = "menu"
    /\ \E exception \in {"KeyboardInterrupt", "EOFError"} :
         console' = IF exception = "KeyboardInterrupt" THEN "Goodbye!"
                    ELSE "An error occurred"
    /\ pc' = "run_done"
    /\ UNCHANGED <<platform, api_calls, health, metrics, cluster_info,
                   services_health, report, mgr_report, user_input, locals>>

InitLoop ==
    /\ \/ pc = "main" /\ args \in ArgSets
       \/ pc = "menu" /\ args = DefaultArgs
    /\ Fresh

NextLoop ==
    \/ Main_Start
    \/ Main_GenerateReport
    \/ Main_Output
    \/ Main_Sleep
    \/ Main_KeyboardInterrupt
    \/ RealTimeDashboard_Begin
    \/ Dashboard_Poll
    \/ Dashboard_Table
    \/ Dashboard_OverallPoll
    \/ Dashboard_Overall
    \/ Dashboard_Sleep
    \/ Dashboard_KeyboardInterrupt
    \/ StartLoadTest
    \/ MonitorLoadTest_End
    \/ MonitorLoadTest_Poll
    \/ MonitorLoadTest_Sleep
    \/ MonitorLoadTest_KeyboardInterrupt
    \/ Run_ViewScalingPolicies
    \/ Run_ServiceHealthCheck
    \/ Run_SubMenu
    \/ Run_Other
    \/ Run_Continue
    \/ Run_Exit
    \/ Run_InputRaises

SpecLoop == InitLoop /\ [][NextLoop]_vars

\* A running program takes its next step: every step of a loop other than
\* the arrival of an interrupt is taken once it can be
FairLoop ==
    /\ SpecLoop
    /\ WF_vars(Main_GenerateReport)
    /\ WF_vars(Main_Output)
    /\ WF_vars(Main_Sleep)
    /\ WF_vars(Dashboard_Poll)
    /\ WF_vars(Dashboard_Table)
    /\ WF_vars(Dashboard_OverallPoll)
    /\ WF_vars(Dashboard_Overall)
    /\ WF_vars(Dashboard_Sleep)

\* The load-test monitor takes its next step: the deadline test, the fetch
\* and the return of the sleep happen once they can
FairLoadTest ==
    /\ SpecLoop
    /\ WF_vars(MonitorLoadTest_End)
    /\ WF_vars(MonitorLoadTest_Poll)
    /\ WF_vars(MonitorLoadTest_Sleep)

----------------------------------------------------------------------------
(* print_report on the reports generate_report can return *)

\* Which of the three per-service rules fire for a service: none, each
\* alone, two together, all three
PrintSignals ==
    {<<0, 0, 0>>, <<1, 0, 0>>, <<0, 1, 0>>, <<0, 0, 1>>, <<1, 0, 1>>, <<1, 1, 1>>}

\* What one service answers before a printed report: CPU, memory and the
\* error count each on the threshold of its recommendation or just above
PrintEnvs ==
    {Env(DescribeFound(ServiceInfo("ACTIVE", 2, 2, <<Deployment>>)),
         Stats(<<[Average |-> 10 * (80 * Scale + sig[1]),
                  Maximum |-> 10 * (80 * Scale + sig[1])]>>),
         Stats(<<[Average |-> 10 * (80 * Scale + sig[2]),
                  Maximum |-> 10 * (80 * Scale + sig[2])]>>),
         Logs(10 + sig[3])) :
        sig \in PrintSignals}

\* The load balancer answers within a second or not, with every target
\* healthy or not
PrintInfraEnvs ==
    {[InfraOk EXCEPT
        !.response_time = Stats(<<[Average |-> rt, Maximum |-> rt]>>),
        !.target_groups.TargetGroups =
            <<[health |-> [raises |-> FALSE, TargetHealthDescriptions |-> ths]]>>] :
        rt \in {10000, 10010}, ths \in {<<"healthy">>, <<"healthy", "unhealthy">>}}

\* main, line 560: generate_report has returned, print_report is next
InitPrint ==
    /\ pc = "main_rendering"
    /\ args = DefaultArgs
    /\ \E cluster_response \in {r \in ClusterResponses : r.clusters # <<>>},
          envs \in [1..Len(AWSMonitor_services) -> PrintEnvs],
          ienv \in PrintInfraEnvs :
         LET res == AWSMonitor_generate_report(cluster_response, envs, ienv)
         IN  /\ report = res.value
             /\ api_calls = res.calls
    /\ platform = <<>>
    /\ health = NoHealth
    /\ metrics = DefaultMetrics("")
    /\ cluster_info = [error |-> ""]
    /\ services_health = <<>>
    /\ mgr_report = NoMgrReport
    /\ user_input = <<>>
    /\ console = ""
    /\ recommendations = <<>>
    /\ table_data = <<>>
    /\ overall_health = 0
    /\ end_time = 0
    /\ clock = 0

NextPrint == Main_Output

SpecPrint == InitPrint /\ [][NextPrint]_vars

----------------------------------------------------------------------------
(* Properties *)

Found(env) == ~env.describe.raises /\ env.describe.services # <<>>

\* The service was found, so the record carries a computed score
MonScored == pc = "service_health" /\ Found(platform[1])

\* get_service_metrics reached line 153
MgrScored ==
    /\ pc = "service_metrics"
    /\ \A i \in 1..Len(api_calls) : ~api_calls[i].raised

\* C1: whatever the status, the task counts, the CPU and memory (up to
\* MaxUtil percent) and the error count, the health score of the record
\* get_service_health returns (the NOT_FOUND and ERROR records included) and
\* of the dict get_service_metrics returns is an integer in 0..100.
C1_ScoreInRange ==
    /\ pc = "service_health" => health.health_score \in 0..100
    /\ pc = "service_metrics" => metrics.health_score \in 0..100

\* The floor acts on an out-of-range CPU: the penalties exceed 100
C1_Witness ==
    /\ MonScored
    /\ health.cpu_utilization = MaxUtil * Scale
    /\ health.status = "DRAINING"
    /\ health.desired_tasks - health.running_tasks = MaxTasks
    /\ health.health_score = 0

\* C2: with the other inputs fixed, more errors, fewer running tasks, more
\* CPU or more memory never give a higher score, in both variants.
C2_PenaltyMonotone ==
    /\ MonScored =>
         LET h == health
             f(r, c, m, e) ==
                 AWSMonitor_calculate_health_score(h.status, r, h.desired_tasks,
                                                   c, m, e)
         IN  /\ \A e \in ErrorValues : e >= h.errors_count =>
                    f(h.running_tasks, h.cpu_utilization, h.memory_utilization, e)
                        <= h.health_score
             /\ \A r \in 0..MaxTasks : r <= h.running_tasks =>
                    f(r, h.cpu_utilization, h.memory_utilization, h.errors_count)
                        <= h.health_score
             /\ \A c \in UtilValues : c >= h.cpu_utilization =>
                    f(h.running_tasks, c, h.memory_utilization, h.errors_count)
                        <= h.health_score
             /\ \A m \in UtilValues : m >= h.memory_utilization =>
                    f(h.running_tasks, h.cpu_utilization, m, h.errors_count)
                        <= h.health_score
    /\ MgrScored =>
         LET m == metrics
             g(x) == Phase7Manager_calculate_health_score(x)
         IN  /\ \A e \in ErrorValues :
                    g([m EXCEPT !.error_rate = e]) <= m.health_score
             /\ \A r \in 0..MaxTasks : r <= m.running_tasks =>
                    g([m EXCEPT !.running_tasks = r]) <= m.health_score
             /\ \A c \in UtilValues : c >= m.cpu_avg =>
                    g([m EXCEPT !.cpu_avg = c]) <= m.health_score
             /\ \A c \in UtilValues : c >= m.memory_avg =>
                    g([m EXCEPT !.memory_avg = c]) <= m.health_score

\* A score that more CPU lowers: 60.00% costs nothing, 80.01% costs 15
C2_Witness ==
    /\ MonScored
    /\ health.cpu_utilization = 60 * Scale
    /\ health.health_score = 100
    /\ AWSMonitor_calculate_health_score(
           health.status, health.running_tasks, health.desired_tasks,
           80 * Scale + 1, health.memory_utilization, health.errors_count) = 85

\* C7: a service that describe-services does not return is reported as
\* NOT_FOUND with score 0, no tasks and no utilization, without raising, and
\* the only API called for it is describe-services.
C7_NotFound ==
    (/\ pc \in {"service_health", "service_raised"}
     /\ ~platform[1].describe.raises
     /\ platform[1].describe.services = <<>>) =>
        /\ pc = "service_health"
        /\ health.status = "NOT_FOUND"
        /\ health.health_score = 0
        /\ health.running_tasks = 0 /\ health.desired_tasks = 0
        /\ health.cpu_utilization = 0 /\ health.memory_utilization = 0
        /\ \A i \in 1..Len(api_calls) : api_calls[i].api = "describe_services"

\* The service is unknown while its metrics have datapoints to give
C7_Witness ==
    /\ pc = "service_health"
    /\ platform[1].describe = DescribeEmpty
    /\ Len(platform[1].cpu.Datapoints) = MaxDatapoints
    /\ health.status = "NOT_FOUND"
    /\ Len(api_calls) = 1

\* C8: when a metrics or log call for a found service raises, that signal is
\* its zero default and the status, the task counts, the other signals and
\* the score are those computed from what was fetched, in get_service_health
\* and in get_service_metrics.
C8_SignalDegradesAlone ==
    /\ (MonScored /\ (platform[1].cpu.raises \/ platform[1].memory.raises
                        \/ platform[1].logs.raises)) =>
         LET e == platform[1]
             s == e.describe.services[1]
         IN  /\ health.status = s.status
             /\ health.running_tasks = s.runningCount
             /\ health.desired_tasks = s.desiredCount
             /\ health.cpu_utilization =
                    IF e.cpu.raises THEN 0
                    ELSE AWSMonitor_get_service_cpu_utilization(e.cpu)
             /\ health.memory_utilization =
                    IF e.memory.raises THEN 0
                    ELSE AWSMonitor_get_service_memory_utilization(e.memory)
             /\ health.errors_count =
                    IF e.logs.raises THEN 0 ELSE Len(e.logs.events)
             /\ health.health_score =
                    AWSMonitor_calculate_health_score(
                        s.status, s.runningCount, s.desiredCount,
                        health.cpu_utilization, health.memory_utilization,
                        health.errors_count)
    /\ (/\ pc = "service_metrics"
        /\ Found(platform[1])
        /\ platform[1].cpu.raises \/ platform[1].memory.raises) =>
         LET e == platform[1]
             s == e.describe.services[1]
             ok == Phase7Manager_get_service_metrics(
                       metrics.service,
                       [e EXCEPT !.cpu = IF e.cpu.raises THEN Stats(<<>>) ELSE @,
                                 !.memory = IF e.memory.raises THEN Stats(<<>>)
                                            ELSE @]).value
         IN  /\ metrics.status = s.status
             /\ metrics.running_tasks = s.runningCount
             /\ metrics.desired_tasks = s.desiredCount
             /\ e.cpu.raises => metrics.cpu_avg = 0
             /\ e.memory.raises => metrics.memory_avg = 0
             /\ metrics.cpu_avg = ok.cpu_avg
             /\ metrics.memory_avg = ok.memory_avg
             /\ metrics.health_score = Phase7Manager_calculate_health_score(metrics)

\* The monitoring half of C8, which the code satisfies
C8_MonitorHalf ==
    pc = "service_health" => C8_SignalDegradesAlone

\* C9: with zero datapoints returned (and no call raising), the CPU or
\* memory utilization is 0, the manager's maximum too, the record keeps the
\* status the platform reported and its score is the one of a service with
\* no penalty on that axis.
C9_ZeroDatapoints ==
    /\ (MonScored /\ ~platform[1].cpu.raises /\ ~platform[1].memory.raises) =>
         LET e == platform[1]
             s == e.describe.services[1]
             noCpu == e.cpu.Datapoints = <<>>
             noMem == e.memory.Datapoints = <<>>
         IN  /\ noCpu => health.cpu_utilization = 0
             /\ noMem => health.memory_utilization = 0
             /\ (noCpu \/ noMem) =>
                    /\ health.status = s.status
                    /\ health.last_deployment # "Error"
                    /\ health.health_score =
                         AWSMonitor_calculate_health_score(
                             s.status, s.runningCount, s.desiredCount,
                             IF noCpu THEN 0 ELSE health.cpu_utilization,
                             IF noMem THEN 0 ELSE health.memory_utilization,
                             health.errors_count)
    /\ (/\ pc = "service_metrics"
        /\ Found(platform[1])
        /\ ~platform[1].cpu.raises /\ ~platform[1].memory.raises) =>
         LET e == platform[1]
             s == e.describe.services[1]
             noCpu == e.cpu.Datapoints = <<>>
             noMem == e.memory.Datapoints = <<>>
         IN  /\ noCpu => metrics.cpu_avg = 0 /\ metrics.cpu_max = 0
             /\ noMem => metrics.memory_avg = 0 /\ metrics.memory_max = 0
             /\ (noCpu \/ noMem) =>
                    /\ metrics.status = s.status
                    /\ metrics.health_score =
                         Phase7Manager_calculate_health_score(
                             [metrics EXCEPT
                                !.cpu_avg = IF noCpu THEN 0 ELSE @,
                                !.memory_avg = IF noMem THEN 0 ELSE @])

\* A draining service one task short, no datapoints for CPU or memory
C9_Witness ==
    /\ MonScored
    /\ platform[1].cpu = Stats(<<>>)
    /\ platform[1].memory = Stats(<<>>)
    /\ platform[1].logs = Logs(0)
    /\ health.status = "DRAINING"
    /\ health.health_score = 50

Band(score) ==
    IF score >= 80 THEN "healthy" ELSE IF score >= 60 THEN "warning" ELSE "critical"

InBand(sh, band) == Cardinality({i \in 1..Len(sh) : Band(sh[i].health_score) = band})

\* generate_report has returned its report to main
ReportDone == pc = "gr_done"

\* generate_comprehensive_report has built and printed its report
MgrReportDone == pc = "press_enter" /\ user_input = <<"8">>

\* C3: in a report, healthy + warning + critical = total, and a service is
\* healthy iff its score >= 80, warning iff 60 <= score < 80, critical iff
\* score < 60.
C3_BandsPartition ==
    ReportDone =>
        LET sh == report.services_health
            sm == report.summary
        IN  /\ sm.total_services = Len(sh)
            /\ sm.healthy_services + sm.warning_services + sm.critical_services
                  = sm.total_services
            /\ sm.healthy_services = InBand(sh, "healthy")
            /\ sm.warning_services = InBand(sh, "warning")
            /\ sm.critical_services = InBand(sh, "critical")

\* A report with a service on each edge of the warning band
C3_Witness ==
    /\ ReportDone
    /\ \E i, j, k \in 1..Len(report.services_health) :
         /\ report.services_health[i].health_score = 80
         /\ report.services_health[j].health_score = 60
         /\ report.services_health[k].health_score = 40
    /\ report.summary.warning_services = 1

\* x, in hundredths, is n / d rounded to two decimals
IsRounded(x, n, d) == 2 * d * x - 200 * n \in (0 - d)..d

\* C4: the overall score of generate_report and of
\* generate_comprehensive_report is the mean, rounded to two decimals, of
\* the scores of all the configured services, and a service whose fetch
\* failed or that was not found is one of them with a score of 0.
C4_MeanOfAllServices ==
    /\ ReportDone =>
         LET sh == report.services_health
         IN  /\ Len(sh) = Len(AWSMonitor_services)
             /\ IsRounded(report.overall_health_score, sum(Scores(sh)), Len(sh))
             /\ \A i \in 1..Len(sh) :
                    ~Found(platform[i]) => sh[i].health_score = 0
    /\ MgrReportDone =>
         LET sv == mgr_report.services
         IN  /\ Len(sv) = Len(Phase7Manager_services)
             /\ IsRounded(mgr_report.performance.overall_health,
                          sum(Field(sv, "health_score")), Len(sv))
             /\ \A i \in 1..Len(sv) :
                    ~Found(platform[i]) => sv[i].health_score = 0

\* The monitoring half of C4, which the code satisfies
C4_MonitorHalf == ReportDone => C4_MeanOfAllServices

\* The scores 100, 80, 60, 40 and 20, one service each
Scenario4(sh) ==
    \A v \in {100, 80, 60, 40, 20} :
        Cardinality({i \in 1..Len(sh) : sh[i].health_score = v}) = 1

\* C5 as stated: five services scoring 100, 80, 60, 40 and 20 give overall
\* 60.0, healthy 1, warning 1, critical 3.
C5_Scenario4AsStated ==
    (ReportDone /\ Scenario4(report.services_health)) =>
        /\ report.overall_health_score = 60 * Scale
        /\ report.summary.healthy_services = 1
        /\ report.summary.warning_services = 1
        /\ report.summary.critical_services = 3

\* C5 amended: five services scoring 100, 80, 60, 40 and 20 give overall
\* 60.0, healthy 2 (100 and 80), warning 1 (the service scoring exactly 60)
\* and critical 2 (40 and 20).
C5_Scenario4 ==
    (ReportDone /\ Scenario4(report.services_health)) =>
        /\ report.overall_health_score = 60 * Scale
        /\ report.summary.healthy_services = 2
        /\ report.summary.warning_services = 1
        /\ report.summary.critical_services = 2
        /\ Band(60) = "warning"

C5_Witness ==
    /\ ReportDone
    /\ Scores(report.services_health) = <<100, 80, 60, 40, 20>>

\* C6: whichever external calls raise, generate_report returns a report;
\* it holds one ServiceHealth per configured service, in configuration
\* order, and a service whose describe-services call raised is there as
\* ERROR with score 0.
C6_ReportAlwaysProduced ==
    /\ pc # "mon_crashed"
    /\ pc = "gr_services" => Len(services_health) = Len(platform)
    /\ ReportDone =>
         LET sh == report.services_health
         IN  /\ Len(sh) = Len(AWSMonitor_services)
             /\ \A i \in 1..Len(sh) :
                    /\ sh[i].service_name = AWSMonitor_services[i]
                    /\ platform[i].describe.raises =>
                           sh[i].status = "ERROR" /\ sh[i].health_score = 0

\* A report built while calls of every kind raised
C6_Witness ==
    /\ ReportDone
    /\ "error" \in DOMAIN report.cluster_info
    /\ report.infrastructure_health.rds_status = "error"
    /\ platform[1].describe.raises
    /\ platform[2].cpu.raises /\ platform[2].logs.raises
    /\ report.services_health[1].status = "ERROR"
    /\ report.services_health[2].status = "ACTIVE"

\* update_scaling_targets has ended
ScalingDone ==
    /\ pc \in {"press_enter", "mgr_exit"}
    /\ Len(user_input) >= 2
    /\ user_input[1] = "1" /\ user_input[2] = "2"

\* C10: update_scaling_targets calls register-scalable-target only when the
\* service is a configured one, both capacities parse as integers and
\* min < max, and then with those capacities; otherwise no call is made;
\* either way the menu loop goes on.
C10_ScalingValidated ==
    /\ ScalingDone => pc = "press_enter"
    /\ ScalingDone =>
         LET valid ==
                 /\ Len(user_input) = 5
                 /\ InSeq(user_input[3], Phase7Manager_services)
                 /\ int(user_input[4]).ok /\ int(user_input[5]).ok
                 /\ int(user_input[4]).value < int(user_input[5]).value
         IN  /\ ~valid => api_calls = <<>>
             /\ valid =>
                    /\ Len(api_calls) = 1
                    /\ api_calls[1].api = "register_scalable_target"
                    /\ api_calls[1].MinCapacity = int(user_input[4]).value
                    /\ api_calls[1].MaxCapacity = int(user_input[5]).value

\* Equal capacities, typed differently: no call
C10_Witness ==
    /\ ScalingDone
    /\ user_input = <<"1", "2", "api-gateway", "2", " 2 ">>
    /\ api_calls = <<>>
    /\ console = "Minimum capacity must be less than maximum capacity"

----------------------------------------------------------------------------
(* Load-test parameters *)

\* start_load_test has run: the choices '3' and '1' and the lines it read
LoadTestAsked ==
    Len(user_input) >= 3 /\ user_input[1] = "3" /\ user_input[2] = "1"

InvokeCalled == \E i \in 1..Len(api_calls) : api_calls[i].api = "invoke"

\* Both lines were read and are numbers inside the prompted ranges
LoadTestInputValid ==
    /\ Len(user_input) = 4
    /\ int(or(user_input[3], "100")).ok
    /\ int(or(user_input[3], "100")).value \in 10..1000
    /\ int(or(user_input[4], "10")).ok
    /\ int(or(user_input[4], "10")).value \in 1..60

\* C11: start_load_test calls invoke only for a numeric target RPS in
\* 10..1000 and a numeric duration in 1..60 minutes; any other input makes
\* no invoke call and returns to the menu loop of run.
C11_LoadTestValidated ==
    LoadTestAsked =>
        /\ InvokeCalled => LoadTestInputValid
        /\ ~LoadTestInputValid => pc = "press_enter"

\* What the code does hold to: a line that is not a number makes no invoke
\* call and the menu loop continues
C11_NonNumericAborts ==
    (LoadTestAsked /\ (\E i \in 3..Len(user_input) :
                          ~int(or(user_input[i], "100")).ok))
        => ~InvokeCalled /\ pc = "press_enter"

----------------------------------------------------------------------------
(* The refresh loops *)

\* The state of the refresh loop a control position belongs to
LoopState(p) ==
    CASE p \in {"main", "menu"} -> "Idle"
      [] p \in {"main_polling", "dash_polling", "dash_polling_overall"} -> "Polling"
      [] p \in {"main_rendering", "dash_rendering", "dash_rendering_overall"}
            -> "Rendering"
      [] p \in {"main_sleeping", "dash_sleeping"} -> "Sleeping"
      [] p \in {"main_done", "main_stopped", "main_raised", "press_enter",
                "run_done"} -> "Stopped"
      [] OTHER -> "LoadTest"

InMain == pc \in {"main", "main_polling", "main_rendering", "main_sleeping",
                  "main_done", "main_stopped", "main_raised"}

InDashboard == pc \in {"dash_polling", "dash_rendering", "dash_polling_overall",
                       "dash_rendering_overall", "dash_sleeping"}

\* The steps of Idle -> Polling -> Rendering -> Sleeping -> Polling, with
\* Stopped reached after the render of a single run or from any state
RefreshSteps ==
    {<<"Idle", "Polling">>, <<"Polling", "Rendering">>,
     <<"Rendering", "Sleeping">>, <<"Sleeping", "Polling">>,
     <<"Polling", "Stopped">>, <<"Rendering", "Stopped">>,
     <<"Sleeping", "Stopped">>}

RefreshStep ==
    /\ <<LoopState(pc), LoopState(pc')>> \in RefreshSteps
    /\ (InMain /\ ~args.watch) =>
          /\ LoopState(pc') # "Sleeping"
          /\ LoopState(pc') = "Polling" => LoopState(pc) = "Idle"

\* C12: a refresh loop (watch mode, single run, live dashboard) moves
\* Idle -> Polling -> Rendering -> Sleeping -> Polling and in no other
\* order: a render follows a completed poll, the next poll follows the
\* sleep after the render, and a single run polls once, renders once and
\* stops without sleeping.
C12_RefreshLoopOrder ==
    [][(InMain \/ InDashboard) => RefreshStep]_vars

\* The monitoring half of C12: main of monitor.py alone
C12_MonitorHalf == [][InMain => RefreshStep]_vars

----------------------------------------------------------------------------
(* Cancellation *)

\* C13: in watch mode and in the live dashboard Ctrl+C can arrive in the
\* Polling, Rendering and Sleeping states; it stops the loop in one step,
\* without a further poll or render and without the rest of the sleep, and
\* nothing of the loop runs after it.
C13_InterruptStopsLoop ==
    /\ [](pc \in {"main_polling", "main_rendering", "main_sleeping"}
             => ENABLED Main_KeyboardInterrupt)
    /\ [](InDashboard => ENABLED Dashboard_KeyboardInterrupt)
    /\ [][/\ console' = "Monitoring stopped by user" =>
                /\ pc' = "main_stopped"
                /\ UNCHANGED <<api_calls, report, recommendations>>
          /\ pc = "main_stopped" => FALSE
          /\ (InDashboard /\ console' = "Dashboard monitoring stopped") =>
                /\ pc' = "press_enter"
                /\ UNCHANGED <<api_calls, table_data, overall_health>>
          /\ (pc = "press_enter" /\ console = "Dashboard monitoring stopped") =>
                pc' = "menu" /\ api_calls' = <<>>]_vars

\* An interrupt has stopped the watch loop during its sleep
C13_Witness ==
    /\ pc = "main_stopped"
    /\ args.watch
    /\ recommendations # <<>>
    /\ console = "Monitoring stopped by user"

----------------------------------------------------------------------------
(* Unexpected exceptions *)

\* C14: an unexpected exception raised inside the top-level loop of main
\* (monitor.py) or of run (manager) never leaves the entry point.
C14_NoRawFault == pc # "main_raised"

\* The manager's half of C14: run ends after printing the error
C14_ManagerHalf ==
    [][(pc' = "run_done" /\ console' = "An error occurred") =>
          UNCHANGED <<api_calls, table_data>>]_vars

----------------------------------------------------------------------------
(* Failed fetches inside the loops *)

\* The calls the step made, when it is a poll of one of the loops
NewCalls ==
    IF pc = "lt_loop"
    THEN SubSeq(api_calls', Len(api_calls) + 1, Len(api_calls'))
    ELSE api_calls'

PollStep ==
    /\ pc \in {"main_polling", "dash_polling", "dash_polling_overall", "lt_loop"}
    /\ api_calls' # api_calls

\* C15: a poll of watch mode, of the live dashboard or of load-test
\* monitoring in which an API call raised leaves the loop running.
C15_FailedFetchKeepsLoop ==
    [][(PollStep /\ \E i \in 1..Len(NewCalls) : NewCalls[i].raised) =>
          pc' \in {"main_rendering", "dash_rendering", "dash_rendering_overall",
                   "lt_sleeping"}]_vars

\* The watch-mode and dashboard part of C15
C15_WatchAndDashboard ==
    [][(PollStep /\ pc # "lt_loop"
        /\ \E i \in 1..Len(NewCalls) : NewCalls[i].raised) =>
          pc' \in {"main_rendering", "dash_rendering", "dash_rendering_overall"}]_vars

----------------------------------------------------------------------------
(* Progress of the watch loop *)

\* C16: in watch mode and in the live dashboard the loop leaves a state
\* only to its next state, to Stopped on Ctrl+C or with an exception of
\* the output; unless one of the two happens every sleep is followed by a
\* new poll and every poll by a new render.
C16_PollingNeverStops ==
    /\ [][/\ (pc = "main_sleeping" /\ pc' # pc) =>
                pc' \in {"main_polling", "main_stopped"}
          /\ (pc = "dash_sleeping" /\ pc' # pc) =>
                (pc' = "dash_polling"
                 \/ console' = "Dashboard monitoring stopped")]_vars
    /\ (pc = "main_sleeping") ~> (pc \in {"main_polling", "main_stopped"})
    /\ (pc = "main_polling") ~> (pc \in {"main_rendering", "main_stopped"})
    /\ (pc = "main_rendering" /\ args.watch)
          ~> (pc \in {"main_sleeping", "main_stopped", "main_raised"})
    /\ (pc = "dash_sleeping") ~> (pc \in {"dash_polling", "press_enter"})
    /\ (pc = "dash_polling")
          ~> (pc \in {"dash_rendering_overall", "press_enter", "run_done"})

\* The watch loop sleeps after a report it has printed
C16_Witness ==
    /\ pc = "main_sleeping"
    /\ args.watch
    /\ recommendations # <<>>

----------------------------------------------------------------------------
(* Recommendations *)

\* The rules in the order stated, each with whether it fires on the report
\* and the line it writes: the four system-wide rules, then CPU, memory and
\* errors of each service in report order
RulesInOrder(rep) ==
    LET sh == rep.services_health
    IN  <<[fires |-> rep.summary.critical_services > 0,
           line |-> Recommendation("CRITICAL: Immediate attention needed", "")],
          [fires |-> rep.summary.warning_services > 0,
           line |-> Recommendation("WARNING: Monitor services", "")],
          [fires |-> rep.infrastructure_health.alb_unhealthy_targets > 0,
           line |-> Recommendation("Check load balancer target health", "")],
          [fires |-> rep.infrastructure_health.alb_response_time > 1000,
           line |-> Recommendation("Optimize application response time", "")]>>
        \o [k \in 1..(3 * Len(sh)) |->
              LET service == sh[((k - 1) \div 3) + 1]
              IN  CASE k % 3 = 1 ->
                        [fires |-> service.cpu_utilization > 80 * Scale,
                         line |-> Recommendation("Scale up - High CPU usage",
                                                 service.service_name)]
                    [] k % 3 = 2 ->
                        [fires |-> service.memory_utilization > 80 * Scale,
                         line |-> Recommendation("Scale up - High memory usage",
                                                 service.service_name)]
                    [] OTHER ->
                        [fires |-> service.errors_count > 10,
                         line |-> Recommendation("Check logs - High error rate",
                                                 service.service_name)]]

Fired(rep) ==
    LET fired == SelectSeq(RulesInOrder(rep), LAMBDA r : r.fires)
    IN  [k \in 1..Len(fired) |-> fired[k].line]

Sentinel == Recommendation("All systems operating normally", "")

Printed == pc \in {"main_done", "main_sleeping"} /\ args.output = "console"

\* C17: print_report writes the recommendations of the rules that fire, in
\* the order critical count, warning count, unhealthy targets, response
\* time over 1.0 s, then CPU > 80, memory > 80 and errors > 10 of each
\* service in report order; the line 'All systems operating normally' is
\* written exactly when no rule fired, and is then the only line.
C17_RecommendationsInOrder ==
    Printed =>
        /\ Fired(report) # <<>> => recommendations = Fired(report)
        /\ Fired(report) = <<>> => recommendations = <<Sentinel>>
        /\ (\E k \in 1..Len(recommendations) : recommendations[k] = Sentinel)
              <=> Fired(report) = <<>>

\* Every system-wide rule fired and so did rules of two services
C17_Witness ==
    /\ Printed
    /\ Len(recommendations) >= 7
    /\ recommendations[1].rule = "CRITICAL: Immediate attention needed"
    /\ recommendations[4].rule = "Optimize application response time"
    /\ recommendations[5].service = AWSMonitor_services[1]
    /\ recommendations[Len(recommendations)].service = AWSMonitor_services[5]
    /\ recommendations[Len(recommendations)].rule = "Check logs - High error rate"

----------------------------------------------------------------------------
(* Fields of the report *)

\* C18: the report generate_report returns has a field holding the
\* ordered recommendations, next to timestamp, project, environment,
\* region, cluster summary, services, infrastructure, overall score and
\* summary counts.
C18_ReportCarriesRecommendations ==
    ReportDone =>
        /\ {"timestamp", "project_name", "environment", "region", "cluster_info",
            "services_health", "infrastructure_health", "overall_health_score",
            "summary"} \subseteq DOMAIN report
        /\ "recommendations" \in DOMAIN report

\* What the code does hold to: the nine other fields are there
C18_OtherFields ==
    ReportDone =>
        DOMAIN report =
            {"timestamp", "project_name", "environment", "region", "cluster_info",
             "services_health", "infrastructure_health", "overall_health_score",
             "summary"}

----------------------------------------------------------------------------
(* Utilization over the lookback window *)

\* The mean of the Average values of the datapoints, rounded to two
\* decimals (raw datapoints are in thousandths)
WindowAverage(response) ==
    round(sum(Averages(response.Datapoints)), 10 * Len(response.Datapoints))

HasDatapoints(response) == ~response.raises /\ response.Datapoints # <<>>

\* C19: with one or more datapoints in the window, the CPU and the memory
\* utilization of a service are the mean of the Average values of all the
\* datapoints, in get_service_health and in get_service_metrics.
C19_AverageOfWindow ==
    /\ (MonScored /\ Found(platform[1])) =>
          /\ HasDatapoints(platform[1].cpu) =>
                health.cpu_utilization = WindowAverage(platform[1].cpu)
          /\ HasDatapoints(platform[1].memory) =>
                health.memory_utilization = WindowAverage(platform[1].memory)
    /\ (pc = "service_metrics" /\ ~platform[1].describe.raises) =>
          /\ HasDatapoints(platform[1].cpu) =>
                metrics.cpu_avg = WindowAverage(platform[1].cpu)
          /\ (HasDatapoints(platform[1].memory) /\ ~platform[1].cpu.raises) =>
                metrics.memory_avg = WindowAverage(platform[1].memory)

\* The manager's half of C19
C19_ManagerHalf ==
    (pc = "service_metrics" /\ ~platform[1].describe.raises) =>
        /\ HasDatapoints(platform[1].cpu) =>
              metrics.cpu_avg = WindowAverage(platform[1].cpu)
        /\ (HasDatapoints(platform[1].memory) /\ ~platform[1].cpu.raises) =>
              metrics.memory_avg = WindowAverage(platform[1].memory)

----------------------------------------------------------------------------
(* Issues of the service health check *)

HasIssue(row, tag) == \E k \in 1..Len(row.issues) : row.issues[k] = tag

\* C20: the row of a service in the health check lists High CPU, High
\* Memory, Task deficit and Service inactive for every axis whose penalty
\* lowered the score of the service, and lists the single entry 'None'
\* exactly when the score shown is 100.
C20_IssuesMatchPenalties ==
    pc = "service_checked" =>
        LET row == table_data[1]
            th == performance_thresholds
            scored == \A i \in 1..Len(api_calls) : ~api_calls[i].raised
        IN  /\ row.issues = <<"None">> <=> row.health_score = 100
            /\ scored =>
                  /\ metrics.cpu_avg > th.cpu_warning * Scale
                        => HasIssue(row, "High CPU")
                  /\ metrics.memory_avg > th.memory_warning * Scale
                        => HasIssue(row, "High Memory")
                  /\ metrics.running_tasks < metrics.desired_tasks
                        => HasIssue(row, "Task deficit")
                  /\ metrics.status # "ACTIVE"
                        => HasIssue(row, "Service inactive")

\* What the code does hold to: the tags follow the four tests of lines
\* 649-663, and 'None' stands alone
C20_IssuesAsCoded ==
    pc = "service_checked" =>
        LET row == table_data[1]
        IN  /\ HasIssue(row, "High CPU") <=> metrics.cpu_avg > 80 * Scale
            /\ HasIssue(row, "High Memory") <=> metrics.memory_avg > 80 * Scale
            /\ HasIssue(row, "Task deficit")
                  <=> metrics.running_tasks < metrics.desired_tasks
            /\ HasIssue(row, "Service inactive") <=> metrics.status # "ACTIVE"
            /\ HasIssue(row, "None") <=> Len(row.issues) = 1 /\ row.issues[1] = "None"

\* The service polled is the quiet one: ACTIVE, 2 of 2 tasks, CPU 10%,
\* memory 10%, no error in the log
Scenario1 == platform = <<Scenario("ACTIVE", 2, 2, 10, 10, 0)>>

\* C21: a service with status ACTIVE, 2 running of 2 desired, CPU 10, memory
\* 10 and 0 errors scores 100 in the monitor and in the manager, and the
\* manager's health check lists exactly the issue 'None' for it.
C21_QuietServiceScores100 ==
    Scenario1 =>
        /\ pc = "service_health" =>
              /\ health.status = "ACTIVE"
              /\ health.running_tasks = 2 /\ health.desired_tasks = 2
              /\ health.cpu_utilization = 10 * Scale
              /\ health.memory_utilization = 10 * Scale
              /\ health.errors_count = 0
              /\ health.health_score = 100
        /\ pc \in {"service_metrics", "service_checked"} =>
              metrics.health_score = 100
        /\ pc = "service_checked" =>
              /\ table_data[1].health_score = 100
              /\ table_data[1].issues = <<"None">>

\* The health check has printed the row of the quiet service
C21_Witness ==
    /\ Scenario1
    /\ pc = "service_checked"
    /\ table_data[1].issues = <<"None">>
    /\ table_data[1].health_score = 100

\* Penalty of one utilization in the monitor (hundredths of a percent)
MonUtilPenalty(u) == IF u > 80 * Scale THEN 15 ELSE IF u > 60 * Scale THEN 5 ELSE 0

\* Penalty of the error count in the monitor
MonErrorPenalty(e) ==
    IF e > 10 THEN 20 ELSE IF e > 5 THEN 10 ELSE IF e > 0 THEN 5 ELSE 0

\* C24: the monitor's score is max(0, 100 - 30 [status is not ACTIVE]
\* - 20 * max(0, desired - running) - c(cpu) - c(memory) - e(errors)), with
\* c = 15 above 80, 5 above 60, and e = 20 above 10, 10 above 5, 5 above 0;
\* ACTIVE 1/2 with CPU 50, memory 50, 0 errors scores 80 and DRAINING 0/3
\* with CPU 95, memory 95, 15 errors scores 0.
C24_MonitorScoreFormula ==
    /\ MonScored =>
          health.health_score =
              max(0, 100
                     - (IF health.status # "ACTIVE" THEN 30 ELSE 0)
                     - 20 * max(0, health.desired_tasks - health.running_tasks)
                     - MonUtilPenalty(health.cpu_utilization)
                     - MonUtilPenalty(health.memory_utilization)
                     - MonErrorPenalty(health.errors_count))
    /\ (pc = "service_health"
          /\ platform = <<Scenario("ACTIVE", 1, 2, 50, 50, 0)>>) =>
          health.health_score = 80
    /\ (pc = "service_health"
          /\ platform = <<Scenario("DRAINING", 0, 3, 95, 95, 15)>>) =>
          /\ health.errors_count = 15
          /\ health.cpu_utilization = 95 * Scale
          /\ health.health_score = 0

\* Two missing tasks cost 40: ACTIVE 0/2, quiet otherwise, scores 60
C24_Witness ==
    /\ MonScored
    /\ health.status = "ACTIVE"
    /\ health.running_tasks = 0 /\ health.desired_tasks = 2
    /\ health.cpu_utilization = 0 /\ health.memory_utilization = 0
    /\ health.errors_count = 0
    /\ health.health_score = 60

\* Penalty of one average utilization in the manager
MgrUtilPenalty(u) == IF u > 85 * Scale THEN 30 ELSE IF u > 70 * Scale THEN 15 ELSE 0

\* C25: the manager's score is max(0, 100 - 40 [status is not ACTIVE]
\* - 20 [running < desired] - c(cpu_avg) - c(memory_avg)), with c = 30 above
\* 85 and 15 above 70: the deficit penalty is flat and errors play no part.
C25_ManagerScoreFormula ==
    MgrScored =>
        /\ metrics.health_score =
              max(0, 100
                     - (IF metrics.status # "ACTIVE" THEN 40 ELSE 0)
                     - (IF metrics.running_tasks < metrics.desired_tasks
                        THEN 20 ELSE 0)
                     - MgrUtilPenalty(metrics.cpu_avg)
                     - MgrUtilPenalty(metrics.memory_avg))
        /\ metrics.error_rate = 0

\* All tasks missing and errors in the log still cost 20 in all
C25_Witness ==
    /\ MgrScored
    /\ metrics.status = "ACTIVE"
    /\ metrics.running_tasks = 0 /\ metrics.desired_tasks = MaxTasks
    /\ metrics.cpu_avg = 0 /\ metrics.memory_avg = 0
    /\ Len(platform[1].logs.events) = 11
    /\ metrics.health_score = 80

\* C30: in the manager, a service that describe-services does not return
\* (empty result, nothing raised) is never shown as ACTIVE and its score is
\* below 60, the band the dashboard colours red.
C30_MissingServiceIsCritical ==
    (/\ pc = "service_metrics"
     /\ ~platform[1].describe.raises
     /\ platform[1].describe.services = <<>>) =>
        /\ metrics.status # "ACTIVE"
        /\ metrics.health_score < 60

\* The half the code keeps: a missing service is never shown as ACTIVE
C30_NeverActive ==
    (/\ pc = "service_metrics"
     /\ ~platform[1].describe.raises
     /\ platform[1].describe.services = <<>>) =>
        /\ metrics.status = "Unknown"
        /\ metrics.running_tasks = 0 /\ metrics.desired_tasks = 0

\* monitor_load_test is running or has run for the duration typed
InLoadTest == LoadTestAsked /\ Len(user_input) = 4 /\ InvokeCalled

\* duration_minutes as start_load_test passes it on
DurationAsked == int(or(user_input[4], "10")).value

\* Number of metrics fetches monitor_load_test has made
Fetches ==
    Len(SelectSeq(api_calls, LAMBDA c : c.api = "get_metric_statistics"))

\* C23: monitor_load_test for d minutes repeats fetch, report, sleep of 30
\* seconds while the clock is before start + d * 60 seconds and leaves the
\* loop once that time is reached; it ends after finitely many cycles (at
\* most two per minute), and with d <= 0 it never fetches.
C23_LoadTestLoopEnds ==
    /\ [][/\ (pc = "lt_loop" /\ Fetches' # Fetches) => clock < end_time
          /\ (pc = "lt_loop" /\ pc' = "lt_sleeping") =>
                /\ Fetches' = Fetches + 1
                /\ console' = "Load Test Progress"
          /\ (pc = "lt_sleeping" /\ pc' = "lt_loop") => clock' = clock + 3
          /\ (pc = "lt_loop" /\ ~(clock < end_time)) =>
                (pc' = "press_enter" /\ Fetches' = Fetches)]_vars
    /\ [](pc \in {"lt_loop", "lt_sleeping"} =>
            /\ InLoadTest
            /\ end_time = 6 * DurationAsked
            /\ Fetches <= max(0, 2 * DurationAsked)
            /\ DurationAsked <= 0 => pc = "lt_loop" /\ Fetches = 0)
    /\ (pc = "lt_loop") ~> (pc = "press_enter")

\* The loop of a two-minute test has fetched four times and sees the
\* deadline reached
C23_Witness ==
    /\ pc = "lt_loop"
    /\ DurationAsked = 2
    /\ Fetches = 4
    /\ ~(clock < end_time)

\* C29: every progress table of monitor_load_test shows a progress between
\* 0 and 100 percent and a remaining time that is not negative, whatever
\* time the metrics fetch takes between the deadline test and the reading
\* of the elapsed time.
C29_ProgressWithinRange ==
    pc = "lt_sleeping" =>
        /\ table_data[2].metric = "Progress"
        /\ table_data[2].value \in 0..1000
        /\ table_data[3].metric = "Remaining Time"
        /\ table_data[3].value >= 0

\* What the code keeps: progress and remaining time are those of the clock
\* read after the fetch, which the deadline test has not seen
C29_ProgressOfLateClock ==
    pc = "lt_sleeping" =>
        /\ table_data[2].value = round(1000 * clock, end_time)
        /\ table_data[3].value = round(5 * (end_time - clock), 3)
        /\ clock < end_time + MaxLatency

\* C27: in every iteration of the live dashboard the overall health shown
\* is the mean of the health scores of the table shown in that iteration,
\* also when the signals change while the iteration runs.
C27_OverallIsMeanOfTable ==
    pc \in {"dash_rendering_overall", "dash_sleeping"} =>
        overall_health =
            round(10 * sum([i \in 1..Len(table_data) |-> table_data[i].health]),
                  Len(table_data))

\* C28: in get_infrastructure_health the failure of one query degrades
\* only its component: when the database query raises and the cache and
\* load-balancer queries would answer, the report shows the database as
\* 'error' and the real cache status, load-balancer status and targets.
C28_OneFailureOneComponent ==
    (/\ pc = "main_rendering"
     /\ platform[1].infra.rds.raises
     /\ ~platform[1].infra.redis.raises
     /\ ~platform[1].infra.alb.raises) =>
        LET ienv == platform[1].infra
            rest == AWSMonitor_get_infrastructure_health(
                        [ienv EXCEPT !.rds = InfraOk.rds]).value
            shown == report.infrastructure_health
        IN  /\ shown.rds_status = "error"
            /\ shown.redis_status = rest.redis_status
            /\ shown.alb_status = rest.alb_status
            /\ shown.alb_healthy_targets = rest.alb_healthy_targets
            /\ shown.alb_unhealthy_targets = rest.alb_unhealthy_targets

\* What the code does: any failing query puts 'error' and zeros everywhere
C28_AllComponentsError ==
    (/\ pc = "main_rendering"
     /\ \/ platform[1].infra.rds.raises
        \/ platform[1].infra.redis.raises
        \/ platform[1].infra.alb.raises) =>
        report.infrastructure_health =
            InfrastructureHealth("error", "error", "error", 0, 0, 0)

\* A choice was read at the main menu and it was not '9'
ChoiceTaken == pc = "menu" /\ Len(user_input') >= 1 /\ user_input'[1] # "9"

\* C26: the menu loop of the manager stops only on choice 9 or on an
\* interrupt: every other input, an unrecognised choice and every option of
\* the auto-scaling, performance-monitoring and load-testing sub-menus
\* included, finishes its action and comes back to the main menu.
C26_OnlyExitStopsTheLoop ==
    [][ChoiceTaken => pc' # "run_done"]_vars

\* The options that do come back: every choice that calls a method the
\* class defines, 'Back to Main Menu' and an unrecognised choice
C26_DefinedOptionsReturn ==
    [][(ChoiceTaken /\ pc' = "run_done") =>
          /\ Len(user_input') = 2
          /\ SubMenuCall(user_input'[1], user_input'[2])
                \notin Phase7Manager_methods \cup {"return", "Invalid choice"}]_vars

====
